---- MODULE Spec2Model ----
(***************************************************************************)
(* EDXML SDK: the event merger (edxml-event-merger.py) and the parts of    *)
(* the schema registry it drives (EDXMLDefinitions.MergeEvents,            *)
(* ComputeStickyHash, EDXMLBase.NormalizeObject).                          *)
(*                                                                         *)
(* Conventions of the model                                                *)
(*  - a Python string that the code parses or compares character by        *)
(*    character (an object value) is a sequence of one-character strings:  *)
(*    "10" is <<"1","0">>;                                                *)
(*  - a Python string that the code splits at ':' (a data type, a source   *)
(*    id, a group key) is the sequence of its colon-separated fields;      *)
(*  - a Python dict is a function whose DOMAIN is the set of keys;         *)
(*  - a list of object values is kept as the set set(list), which is what  *)
(*    MergeEvents reads (lines 898-903) before it looks at any value.      *)
(***************************************************************************)
EXTENDS Integers, Sequences, FiniteSets, TLC

VARIABLES
  \* EDXMLDefinitions (the schema registry)
  EventTypes,       \* self.EventTypes
  EventTypeNames,   \* self.EventTypeNames
  PropertyNames,    \* self.PropertyNames
  ObjectTypes,      \* self.ObjectTypes
  ErrorCount,       \* EDXMLBase.ErrorCount
  \* EDXMLEventMerger (pass-through mode)
  HashBuffer,       \* self.HashBuffer
  edited,           \* the values EditEvent returned so far, in order
  \* BufferingEDXMLEventMerger (buffered mode)
  BufferSize,       \* self.BufferSize
  MaxLatency,       \* self.MaxLatency
  MaxBufferSize,    \* self.MaxBufferSize
  LastOutputTime,   \* self.LastOutputTime
  Buffer,           \* self.Buffer
  Generator,        \* the calls made on self.Generator (the EDXMLWriter), in order
  \* environment
  now,              \* time.time()
  phase,            \* position of the parser in the input document
  input,            \* the events read from the input so far (history)
  readAt,           \* for each event of input: the value of flushes when it was read (history)
  insertedIds,      \* indices in input of the events put in Buffer (history)
  flushes,          \* number of FlushBuffer calls so far (history)
  \* MergeEvents called on its own
  argA, argB,       \* EventObjectsA, EventObjectsB
  resAB, resBA,     \* outcome of MergeEvents(A, B) and of MergeEvents(B, A)
  argC,             \* the objects of a third event
  resLeft,          \* outcome of merging B into A, then C into A
  resRight,         \* outcome of merging C into B, then B into A
  mergeType,        \* EventTypeName of a single MergeEvents call
  \* ComputeStickyHash and ComputeStickyHashV3 called on two events
  hashArgs,         \* event type, source URL, objects and content of the two events
  hashV2, hashV3,   \* what ComputeStickyHash and ComputeStickyHashV3 hashed for each
  \* the registration methods of EDXMLDefinitions called one by one
  SourceURLs,       \* self.SourceURLs
  SourceIDs,        \* self.SourceIDs
  lastCall,         \* the last call made, its arguments and how it ended (history)
  \* ValidateDataType and ValidateObject called on their own
  valArgs,          \* DataType and Value
  dataTypeResult,   \* how ValidateDataType(DataType) ended
  objectResult      \* how ValidateObject(Value, DataType) ended

vars == <<EventTypes, EventTypeNames, PropertyNames, ObjectTypes, ErrorCount, HashBuffer, edited,
          BufferSize, MaxLatency, MaxBufferSize, LastOutputTime, Buffer, Generator,
          now, phase, input, readAt, insertedIds, flushes, argA, argB, resAB, resBA,
          argC, resLeft, resRight, mergeType, hashArgs, hashV2, hashV3,
          SourceURLs, SourceIDs, lastCall, valArgs, dataTypeResult, objectResult>>

registryVars == <<EventTypes, EventTypeNames, PropertyNames, ObjectTypes>>
passVars     == <<HashBuffer, edited>>
bufferVars   == <<BufferSize, MaxLatency, MaxBufferSize, LastOutputTime, Buffer,
                  Generator, readAt, insertedIds, flushes>>
chainVars    == <<argC, resLeft, resRight>>
mergeVars    == <<argA, argB, resAB, resBA, chainVars, mergeType>>
hashVars     == <<hashArgs, hashV2, hashV3>>
callVars     == <<SourceURLs, SourceIDs, lastCall>>
validateVars == <<valArgs, dataTypeResult, objectResult>>

(***************************************************************************)
(* Bounds of the model.                                                    *)
(***************************************************************************)
MaxStream == 3      \* events read from one input stream
MaxTime   == 1      \* ticks of the wall clock during one run

None == "None"      \* Python's None, and "no value yet"

Range(s) == {s[i] : i \in DOMAIN s}

SetMin(S) == CHOOSE x \in S : \A y \in S : x <= y
SetMax(S) == CHOOSE x \in S : \A y \in S : x >= y

\* All orders in which the members of S can be listed, each once.
Orderings(S) ==
  {s \in [1..Cardinality(S) -> S] : \A x \in S : \E i \in DOMAIN s : s[i] = x}

(***************************************************************************)
(* Python string and number conversions used on object values.             *)
(***************************************************************************)
Digits == <<"0", "1", "2", "3", "4", "5", "6", "7", "8", "9">>

DigitValue(c) == (CHOOSE i \in DOMAIN Digits : Digits[i] = c) - 1

Letters == <<"a", "b", "c", "d", "e", "f", "g", "h", "i", "j", "k", "l", "m",
             "n", "o", "p", "q", "r", "s", "t", "u", "v", "w", "x", "y", "z">>

NL == "\n"

\* ord(c) for the characters that occur in the strings of the model.
Ord(c) ==
  CASE c = NL  -> 10
    [] c = "-" -> 45
    [] c = "." -> 46
    [] c = "/" -> 47
    [] c \in Range(Digits) -> 48 + DigitValue(c)
    [] c = ":" -> 58
    [] c \in Range(Letters) -> 96 + (CHOOSE i \in DOMAIN Letters : Letters[i] = c)

\* s < t for two Python strings.
RECURSIVE StrLess(_, _)
StrLess(s, t) ==
  IF t = <<>> THEN FALSE
  ELSE IF s = <<>> THEN TRUE
  ELSE IF Head(s) = Head(t) THEN StrLess(Tail(s), Tail(t))
  ELSE Ord(Head(s)) < Ord(Head(t))

StrMin(S) == CHOOSE x \in S : \A y \in S : x = y \/ StrLess(x, y)
StrMax(S) == CHOOSE x \in S : \A y \in S : x = y \/ StrLess(y, x)

\* int(s) for a string of decimal digits with an optional sign.
RECURSIVE ParseNat(_)
ParseNat(s) ==
  IF s = <<>> THEN 0
  ELSE 10 * ParseNat(SubSeq(s, 1, Len(s) - 1)) + DigitValue(s[Len(s)])

ParseInt(s) == IF Head(s) = "-" THEN 0 - ParseNat(Tail(s)) ELSE ParseNat(s)

\* str(n), and '%d' % n, for an integer n.
RECURSIVE FormatNat(_)
FormatNat(n) ==
  IF n < 10 THEN <<Digits[n + 1]>>
  ELSE FormatNat(n \div 10) \o <<Digits[(n % 10) + 1]>>

FormatInt(n) == IF n < 0 THEN <<"-">> \o FormatNat(0 - n) ELSE FormatNat(n)

\* Decimal(s) and float(s) are kept as a whole number of millionths: the values
\* of the model have at most six decimals and fewer than seven digits before
\* the point, for which both are exact and neither format uses an exponent.
Scale == 1000000

RECURSIVE Zeros(_)
Zeros(n) == IF n <= 0 THEN <<>> ELSE <<"0">> \o Zeros(n - 1)

Unsigned(s) == IF s # <<>> /\ Head(s) = "-" THEN Tail(s) ELSE s

\* The place of the decimal point of s, or one past its end.
DotAt(s) ==
  IF \E i \in DOMAIN s : s[i] = "." THEN CHOOSE i \in DOMAIN s : s[i] = "."
  ELSE Len(s) + 1

ParseFixed(s) ==
  LET u == Unsigned(s)
      f == SubSeq(SubSeq(u, DotAt(u) + 1, Len(u)) \o Zeros(6), 1, 6)
      n == ParseNat(SubSeq(u, 1, DotAt(u) - 1)) * Scale + ParseNat(f)
  IN  IF s # <<>> /\ Head(s) = "-" THEN 0 - n ELSE n

Pad6(k) == Zeros(6 - Len(FormatNat(k))) \o FormatNat(k)

\* '%.6f' % x and '%f' % x.
FormatFixed(n) ==
  LET a == IF n < 0 THEN 0 - n ELSE n
  IN  (IF n < 0 THEN <<"-">> ELSE <<>>)
        \o FormatNat(a \div Scale) \o <<".">> \o Pad6(a % Scale)

RECURSIVE StripZeros(_)
StripZeros(s) ==
  IF Len(s) > 1 /\ s[Len(s)] = "0" THEN StripZeros(SubSeq(s, 1, Len(s) - 1)) ELSE s

\* str(x) for a float x: the shortest digits, with one decimal at least.
FormatFloat(n) ==
  LET a == IF n < 0 THEN 0 - n ELSE n
  IN  (IF n < 0 THEN <<"-">> ELSE <<>>)
        \o FormatNat(a \div Scale) \o <<".">> \o StripZeros(Pad6(a % Scale))

(***************************************************************************)
(* The schema the mergers run on: the registry's state once the            *)
(* definitions section of the input was parsed.  One unique event type     *)
(* with a property for every merge strategy, one unique event type with    *)
(* every strategy but replace, one unique event type with min and max      *)
(* properties of timestamp and float type, and two event types that are    *)
(* not unique, one of them with a float property.                          *)
(***************************************************************************)
\* What AddNewProperty stores for a property: the two defaults of line 543,
\* updated with the attributes of the definition (line 544).
PropertyAttributes(Attributes) ==
  [k \in {"unique", "defines-entity"} \cup DOMAIN Attributes |->
     IF k \in DOMAIN Attributes THEN Attributes[k] ELSE "false"]

\* What AddNewEventType (lines 485-495) and AddNewProperty (lines 528-544)
\* leave in self.EventTypes[name] after the given properties were added.
EventTypeEntry(Names, Props) ==
  LET Unique    == {p \in Range(Names) :
                      "unique" \in DOMAIN Props[p] /\ Props[p]["unique"] = "true"}
      Mandatory == {p \in Range(Names) :
                      "merge" \in DOMAIN Props[p]
                      /\ Props[p]["merge"] \in {"match", "min", "max"}}
      Singleton == {p \in Range(Names) :
                      "merge" \in DOMAIN Props[p]
                      /\ Props[p]["merge"] \in {"match", "replace", "min", "max"}}
  IN  [ properties          |-> [p \in Range(Names) |-> PropertyAttributes(Props[p])],
        uniqueProperties    |-> Unique,
        mandatoryProperties |-> Mandatory,
        singletonProperties |-> Singleton,
        unique              |-> Unique # {} ]

StrType == <<"string", "0", "cs">>     \* 'string:0:cs'.split(':')
IntType == <<"number", "int">>         \* 'number:int'.split(':')
FltType == <<"number", "float">>       \* 'number:float'.split(':')
TsType  == <<"timestamp">>             \* 'timestamp'.split(':')

SchemaObjectTypes ==
  ( "ot-str"  :> ("data-type" :> StrType)
 @@ "ot-int"  :> ("data-type" :> IntType)
 @@ "ot-flt"  :> ("data-type" :> FltType)
 @@ "ot-ts"   :> ("data-type" :> TsType) )

SchemaPropertyNames ==
  ( "eu" :> <<"u", "a", "m", "x", "r", "d", "t">>
 @@ "ec" :> <<"u", "a", "m", "x", "d", "t">>
 @@ "et" :> <<"u", "s", "e", "f", "g">>
 @@ "en" :> <<"p">>
 @@ "eh" :> <<"p", "f">> )

SchemaEventTypes ==
  ( "eu" :> EventTypeEntry(SchemaPropertyNames["eu"],
       ( "u" :> ("object-type" :> "ot-str" @@ "unique" :> "true" @@ "merge" :> "match")
      @@ "a" :> ("object-type" :> "ot-str" @@ "merge" :> "add")
      @@ "m" :> ("object-type" :> "ot-int" @@ "merge" :> "min")
      @@ "x" :> ("object-type" :> "ot-int" @@ "merge" :> "max")
      @@ "r" :> ("object-type" :> "ot-str" @@ "merge" :> "replace")
      @@ "d" :> ("object-type" :> "ot-str" @@ "merge" :> "drop")
      @@ "t" :> ("object-type" :> "ot-str" @@ "merge" :> "match") ))
 @@ "ec" :> EventTypeEntry(SchemaPropertyNames["ec"],
       ( "u" :> ("object-type" :> "ot-str" @@ "unique" :> "true" @@ "merge" :> "match")
      @@ "a" :> ("object-type" :> "ot-str" @@ "merge" :> "add")
      @@ "m" :> ("object-type" :> "ot-int" @@ "merge" :> "min")
      @@ "x" :> ("object-type" :> "ot-int" @@ "merge" :> "max")
      @@ "d" :> ("object-type" :> "ot-str" @@ "merge" :> "drop")
      @@ "t" :> ("object-type" :> "ot-str" @@ "merge" :> "match") ))
 @@ "et" :> EventTypeEntry(SchemaPropertyNames["et"],
       ( "u" :> ("object-type" :> "ot-str" @@ "unique" :> "true" @@ "merge" :> "match")
      @@ "s" :> ("object-type" :> "ot-ts" @@ "merge" :> "min")
      @@ "e" :> ("object-type" :> "ot-ts" @@ "merge" :> "max")
      @@ "f" :> ("object-type" :> "ot-flt" @@ "merge" :> "min")
      @@ "g" :> ("object-type" :> "ot-flt" @@ "merge" :> "max") ))
 @@ "en" :> EventTypeEntry(SchemaPropertyNames["en"],
       ( "p" :> ("object-type" :> "ot-int" @@ "merge" :> "drop") ))
 @@ "eh" :> EventTypeEntry(SchemaPropertyNames["eh"],
       ( "p" :> ("object-type" :> "ot-int" @@ "merge" :> "drop")
      @@ "f" :> ("object-type" :> "ot-flt" @@ "merge" :> "drop") )) )

(***************************************************************************)
(* Registry queries.                                                       *)
(***************************************************************************)
EventTypeIsUnique(EventTypeName) == EventTypes[EventTypeName].unique

PropertyIsUnique(EventTypeName, PropertyName) ==
  PropertyName \in EventTypes[EventTypeName].uniqueProperties

GetEventTypeProperties(EventTypeName) == PropertyNames[EventTypeName]

GetPropertyObjectType(EventTypeName, PropertyName) ==
  EventTypes[EventTypeName].properties[PropertyName]["object-type"]

\* The data type, already split at ':' as every caller does first.
GetObjectTypeDataType(ObjectTypeName) == ObjectTypes[ObjectTypeName]["data-type"]

(***************************************************************************)
(* EDXMLBase.NormalizeObject, for the data types of the schema.            *)
(***************************************************************************)
IntegerTypes == {"tinyint", "smallint", "mediumint", "int", "bigint"}

\* The schema has no decimal, ip, boolean or case-insensitive string type.
NormalizeObject(Value, DataType) ==
  IF DataType[1] = "timestamp"
  THEN FormatFixed(ParseFixed(Value))      \* u'%.6f' % Decimal(Value)
  ELSE IF DataType[1] = "number" /\ DataType[2] \in IntegerTypes
  THEN FormatInt(ParseInt(Value))          \* u'%d' % int(Value)
  ELSE IF DataType[1] = "number"
  THEN FormatFixed(ParseFixed(Value))      \* u'%f' % float(Value)
  ELSE Value                               \* unicode(Value)

(***************************************************************************)
(* EDXMLDefinitions.ComputeStickyHash.  SHA-1 is taken to be injective, so *)
(* the hash is its preimage: the event type name, the set ObjectStrings    *)
(* (the joined sorted list is a function of that set) and, for an event    *)
(* type that is not unique, the content.                                   *)
(***************************************************************************)
\* ObjectStrings with the objects of float properties kept.
ObjectStringsKeepsFloats(EventTypeName, EventObjects) ==
  { <<o[1], NormalizeObject(o[2],
            GetObjectTypeDataType(GetPropertyObjectType(EventTypeName, o[1])))>> :
      o \in { q \in Range(EventObjects) :
                ~(EventTypeIsUnique(EventTypeName)
                  /\ PropertyIsUnique(EventTypeName, q[1]) = FALSE) } }

\* ObjectStrings with the properties that are not unique kept.
ObjectStringsAllProperties(EventTypeName, EventObjects) ==
  { <<o[1], NormalizeObject(o[2],
            GetObjectTypeDataType(GetPropertyObjectType(EventTypeName, o[1])))>> :
      o \in { q \in Range(EventObjects) :
                LET DataType ==
                      GetObjectTypeDataType(GetPropertyObjectType(EventTypeName, q[1]))
                IN  ~(DataType[1] = "number" /\ DataType[2] \in {"float", "double"}) } }

\* Lines 988-1011 and 1034-1057: the set ObjectStrings, each member as the
\* pair of its property and its normalized value.
ObjectStrings(EventTypeName, EventObjects) ==
  { <<o[1], NormalizeObject(o[2],
            GetObjectTypeDataType(GetPropertyObjectType(EventTypeName, o[1])))>> :
      o \in { q \in Range(EventObjects) :
                /\ ~(EventTypeIsUnique(EventTypeName)
                     /\ PropertyIsUnique(EventTypeName, q[1]) = FALSE)
                /\ LET DataType ==
                         GetObjectTypeDataType(GetPropertyObjectType(EventTypeName, q[1]))
                   IN  ~(DataType[1] = "number" /\ DataType[2] \in {"float", "double"}) } }

ComputeStickyHash(EventTypeName, EventObjects, EventContent) ==
  IF EventTypeIsUnique(EventTypeName)
  THEN [type |-> EventTypeName, strings |-> ObjectStrings(EventTypeName, EventObjects),
        content |-> None]
  ELSE [type |-> EventTypeName, strings |-> ObjectStrings(EventTypeName, EventObjects),
        content |-> EventContent]

\* The characters of an event type name.
Chars(Name) ==
  CASE Name = "eu" -> <<"e", "u">>
    [] Name = "ec" -> <<"e", "c">>
    [] Name = "et" -> <<"e", "t">>
    [] Name = "en" -> <<"e", "n">>
    [] Name = "eh" -> <<"e", "h">>

\* sorted(S) for a set of strings.
RECURSIVE Sorted(_)
Sorted(S) ==
  IF S = {} THEN <<>> ELSE <<StrMin(S)>> \o Sorted(S \ {StrMin(S)})

\* '\n'.join(L) for a list of strings.
RECURSIVE JoinLines(_)
JoinLines(L) ==
  IF L = <<>> THEN <<>>
  ELSE IF Len(L) = 1 THEN L[1]
  ELSE L[1] \o <<NL>> \o JoinLines(Tail(L))

\* Line 1011: Property + u':' + NormalizedValue, for each member of ObjectStrings.
ObjectLines(EventTypeName, EventObjects) ==
  { <<o[1], ":">> \o o[2] : o \in ObjectStrings(EventTypeName, EventObjects) }

\* Lines 1015-1018: the string that ComputeStickyHash hands to hashlib.sha1.
StickyHashInput(EventTypeName, EventObjects, EventContent) ==
  IF EventTypeIsUnique(EventTypeName)
  THEN Chars(EventTypeName) \o <<NL>>
         \o JoinLines(Sorted(ObjectLines(EventTypeName, EventObjects)))
  ELSE Chars(EventTypeName) \o <<NL>>
         \o JoinLines(Sorted(ObjectLines(EventTypeName, EventObjects)))
         \o <<NL>> \o EventContent

\* Lines 1061-1064: the string that ComputeStickyHashV3 hands to hashlib.sha1.
StickyHashInputV3(EventTypeName, SourceUrl, EventObjects, EventContent) ==
  IF EventTypeIsUnique(EventTypeName)
  THEN SourceUrl \o <<NL>> \o Chars(EventTypeName) \o <<NL>>
         \o JoinLines(Sorted(ObjectLines(EventTypeName, EventObjects)))
  ELSE SourceUrl \o <<NL>> \o Chars(EventTypeName) \o <<NL>>
         \o JoinLines(Sorted(ObjectLines(EventTypeName, EventObjects)))
         \o <<NL>> \o EventContent

(***************************************************************************)
(* EDXMLDefinitions.MergeEvents.                                           *)
(***************************************************************************)
\* A[p] as a set, empty when the dict has no key p (lines 897-904).
ValuesOf(EventObjects, PropertyName) ==
  IF PropertyName \in DOMAIN EventObjects THEN EventObjects[PropertyName] ELSE {}

\* Lines 927-939: the values that min() or max() is taken over, and the string
\* that is kept.  A timestamp is compared as the string it is (line 922).
MinMaxValue(MergeStrategy, SplitDataType, Values) ==
  IF SplitDataType[1] = "timestamp"
  THEN (IF MergeStrategy = "min" THEN StrMin(Values) ELSE StrMax(Values))
  ELSE IF SplitDataType[2] \in {"float", "double"}
  THEN (IF MergeStrategy = "min"
        THEN FormatFloat(SetMin({ParseFixed(v) : v \in Values}))
        ELSE FormatFloat(SetMax({ParseFixed(v) : v \in Values})))
  ELSE (IF MergeStrategy = "min"
        THEN FormatInt(SetMin({ParseInt(v) : v \in Values}))
        ELSE FormatInt(SetMax({ParseInt(v) : v \in Values})))

\* min() and max() of an empty set raise ValueError (lines 937, 939).
MinMaxFails(EventTypeName, PropertyName, SourceP, TargetP) ==
  /\ PropertyName \notin EventTypes[EventTypeName].uniqueProperties
  /\ "merge" \in DOMAIN EventTypes[EventTypeName].properties[PropertyName]
  /\ EventTypes[EventTypeName].properties[PropertyName]["merge"] \in {"min", "max"}
  /\ GetObjectTypeDataType(GetPropertyObjectType(EventTypeName, PropertyName))[1]
        \in {"number", "timestamp"}
  /\ SourceP \cup TargetP = {}

\* Line 912 reads the 'merge' key of the stored property: KeyError without it.
MergeKeyMissing(EventTypeName, PropertyName) ==
  /\ PropertyName \notin EventTypes[EventTypeName].uniqueProperties
  /\ "merge" \notin DOMAIN EventTypes[EventTypeName].properties[PropertyName]

\* MergeProperty with a faulty 'add': the values found in one of the two
\* events only.  C9 tells it from MergeProperty.
MergePropertySymDiff(EventTypeName, PropertyName, SourceP, TargetP) ==
  IF PropertyName \in EventTypes[EventTypeName].uniqueProperties
  THEN TargetP
  ELSE LET MergeStrategy == EventTypes[EventTypeName].properties[PropertyName]["merge"]
           SplitDataType ==
             GetObjectTypeDataType(GetPropertyObjectType(EventTypeName, PropertyName))
       IN  IF MergeStrategy \in {"min", "max"}
           THEN (IF SplitDataType[1] \in {"number", "timestamp"}
                 THEN {MinMaxValue(MergeStrategy, SplitDataType, SourceP \cup TargetP)}
                 ELSE TargetP)
           ELSE IF MergeStrategy = "add"
           THEN (SourceP \cup TargetP) \ (SourceP \cap TargetP)
           ELSE IF MergeStrategy = "replace" THEN SourceP
           ELSE TargetP

\* MergeProperty with a faulty 'add' that takes the values of the source, as
\* 'replace' does.  C10 tells it from MergeProperty.
MergePropertyAddReplaces(EventTypeName, PropertyName, SourceP, TargetP) ==
  IF PropertyName \in EventTypes[EventTypeName].uniqueProperties
  THEN TargetP
  ELSE LET MergeStrategy == EventTypes[EventTypeName].properties[PropertyName]["merge"]
           SplitDataType ==
             GetObjectTypeDataType(GetPropertyObjectType(EventTypeName, PropertyName))
       IN  IF MergeStrategy \in {"min", "max"}
           THEN (IF SplitDataType[1] \in {"number", "timestamp"}
                 THEN {MinMaxValue(MergeStrategy, SplitDataType, SourceP \cup TargetP)}
                 ELSE TargetP)
           ELSE IF MergeStrategy \in {"add", "replace"} THEN SourceP
           ELSE TargetP

\* MergeProperty with a faulty 'add' that keeps only the values the target
\* did not have.  C11 tells it from MergeProperty.
MergePropertyAddNewOnly(EventTypeName, PropertyName, SourceP, TargetP) ==
  IF PropertyName \in EventTypes[EventTypeName].uniqueProperties
  THEN TargetP
  ELSE LET MergeStrategy == EventTypes[EventTypeName].properties[PropertyName]["merge"]
           SplitDataType ==
             GetObjectTypeDataType(GetPropertyObjectType(EventTypeName, PropertyName))
       IN  IF MergeStrategy \in {"min", "max"}
           THEN (IF SplitDataType[1] \in {"number", "timestamp"}
                 THEN {MinMaxValue(MergeStrategy, SplitDataType, SourceP \cup TargetP)}
                 ELSE TargetP)
           ELSE IF MergeStrategy = "add" THEN SourceP \ TargetP
           ELSE IF MergeStrategy = "replace" THEN SourceP
           ELSE TargetP

\* MergeProperty with a 'replace' that is skipped when the source has no
\* value.  C12 tells it from MergeProperty.
MergePropertyReplaceKeeps(EventTypeName, PropertyName, SourceP, TargetP) ==
  IF PropertyName \in EventTypes[EventTypeName].uniqueProperties
  THEN TargetP
  ELSE LET MergeStrategy == EventTypes[EventTypeName].properties[PropertyName]["merge"]
           SplitDataType ==
             GetObjectTypeDataType(GetPropertyObjectType(EventTypeName, PropertyName))
       IN  IF MergeStrategy \in {"min", "max"}
           THEN (IF SplitDataType[1] \in {"number", "timestamp"}
                 THEN {MinMaxValue(MergeStrategy, SplitDataType, SourceP \cup TargetP)}
                 ELSE TargetP)
           ELSE IF MergeStrategy = "add" THEN SourceP \cup TargetP
           ELSE IF MergeStrategy = "replace" /\ SourceP # {} THEN SourceP
           ELSE TargetP

\* One turn of the loop of lines 908-945: the new Target[PropertyName].
MergeProperty(EventTypeName, PropertyName, SourceP, TargetP) ==
  IF PropertyName \in EventTypes[EventTypeName].uniqueProperties
  THEN TargetP
  ELSE LET MergeStrategy == EventTypes[EventTypeName].properties[PropertyName]["merge"]
           SplitDataType ==
             GetObjectTypeDataType(GetPropertyObjectType(EventTypeName, PropertyName))
       IN  IF MergeStrategy \in {"min", "max"}
           THEN (IF SplitDataType[1] \in {"number", "timestamp"}
                 THEN {MinMaxValue(MergeStrategy, SplitDataType, SourceP \cup TargetP)}
                 ELSE TargetP)
           ELSE IF MergeStrategy = "add" THEN SourceP \cup TargetP
           ELSE IF MergeStrategy = "replace" THEN SourceP
           ELSE TargetP

\* MergeEvents without the test of lines 952-959: it rewrites A and returns
\* True whatever the merge did.  C14 tells it from MergeEvents.
MergeEventsAlwaysUpdated(EventTypeName, EventObjectsA, EventObjectsB) ==
  LET Names    == Range(GetEventTypeProperties(EventTypeName))
      Original == [p \in Names |-> ValuesOf(EventObjectsA, p)]
      Source   == [p \in Names |-> ValuesOf(EventObjectsB, p)]
      Raises   == {"KeyError" : p \in {q \in Names : MergeKeyMissing(EventTypeName, q)}}
                  \cup {"ValueError" : p \in {q \in Names :
                          MinMaxFails(EventTypeName, q, Source[q], Original[q])}}
      Merged   == [p \in Names |-> MergeProperty(EventTypeName, p, Source[p], Original[p])]
      \* lines 947-950: Source holds every property of the event type, so the
      \* list this loop walks is empty
      Dropped  == {p \in Names : p \notin DOMAIN Source /\ p \in DOMAIN Merged
                     /\ EventTypes[EventTypeName].properties[p]["merge"] = "replace"}
      Target   == [p \in Names |-> IF p \in Dropped THEN {} ELSE Merged[p]]
      EventUpdated == \E p \in Names : Target[p] # Original[p]
  IN  IF EventTypes[EventTypeName].unique = FALSE
      THEN [raised |-> {"EDXMLError"}, A |-> EventObjectsA, ret |-> None]
      ELSE IF Raises # {}
      THEN [raised |-> Raises, A |-> EventObjectsA, ret |-> None]
      ELSE [raised |-> {}, A |-> Target, ret |-> TRUE]

\* MergeEvents without lines 889-890.  C15 tells it from MergeEvents.
MergeEventsNoUniqueCheck(EventTypeName, EventObjectsA, EventObjectsB) ==
  LET Names    == Range(GetEventTypeProperties(EventTypeName))
      Original == [p \in Names |-> ValuesOf(EventObjectsA, p)]
      Source   == [p \in Names |-> ValuesOf(EventObjectsB, p)]
      Raises   == {"KeyError" : p \in {q \in Names : MergeKeyMissing(EventTypeName, q)}}
                  \cup {"ValueError" : p \in {q \in Names :
                          MinMaxFails(EventTypeName, q, Source[q], Original[q])}}
      Merged   == [p \in Names |-> MergeProperty(EventTypeName, p, Source[p], Original[p])]
      \* lines 947-950: Source holds every property of the event type, so the
      \* list this loop walks is empty
      Dropped  == {p \in Names : p \notin DOMAIN Source /\ p \in DOMAIN Merged
                     /\ EventTypes[EventTypeName].properties[p]["merge"] = "replace"}
      Target   == [p \in Names |-> IF p \in Dropped THEN {} ELSE Merged[p]]
      EventUpdated == \E p \in Names : Target[p] # Original[p]
  IN  IF Raises # {}
      THEN [raised |-> Raises, A |-> EventObjectsA, ret |-> None]
      ELSE IF EventUpdated
      THEN [raised |-> {}, A |-> Target, ret |-> TRUE]
      ELSE [raised |-> {}, A |-> EventObjectsA, ret |-> FALSE]

\* MergeEvents with Target starting empty (lines 898-899 without the copy of
\* EventObjectsA): a property the loop skips loses its values.  C27 tells it
\* from MergeEvents.
MergeEventsEmptyTarget(EventTypeName, EventObjectsA, EventObjectsB) ==
  LET Names    == Range(GetEventTypeProperties(EventTypeName))
      Original == [p \in Names |-> ValuesOf(EventObjectsA, p)]
      Source   == [p \in Names |-> ValuesOf(EventObjectsB, p)]
      Raises   == {"KeyError" : p \in {q \in Names : MergeKeyMissing(EventTypeName, q)}}
                  \cup {"ValueError" : p \in {q \in Names :
                          MinMaxFails(EventTypeName, q, Source[q], Original[q])}}
      Merged   == [p \in Names |-> MergeProperty(EventTypeName, p, Source[p], {})]
      \* lines 947-950: Source holds every property of the event type, so the
      \* list this loop walks is empty
      Dropped  == {p \in Names : p \notin DOMAIN Source /\ p \in DOMAIN Merged
                     /\ EventTypes[EventTypeName].properties[p]["merge"] = "replace"}
      Target   == [p \in Names |-> IF p \in Dropped THEN {} ELSE Merged[p]]
      EventUpdated == \E p \in Names : Target[p] # Original[p]
  IN  IF EventTypes[EventTypeName].unique = FALSE
      THEN [raised |-> {"EDXMLError"}, A |-> EventObjectsA, ret |-> None]
      ELSE IF Raises # {}
      THEN [raised |-> Raises, A |-> EventObjectsA, ret |-> None]
      ELSE IF EventUpdated
      THEN [raised |-> {}, A |-> Target, ret |-> TRUE]
      ELSE [raised |-> {}, A |-> EventObjectsA, ret |-> FALSE]

\* The outcome of a call: the exceptions it can end in (none when it returns),
\* EventObjectsA as the call leaves it, and the value returned.
MergeEvents(EventTypeName, EventObjectsA, EventObjectsB) ==
  LET Names    == Range(GetEventTypeProperties(EventTypeName))
      Original == [p \in Names |-> ValuesOf(EventObjectsA, p)]
      Source   == [p \in Names |-> ValuesOf(EventObjectsB, p)]
      Raises   == {"KeyError" : p \in {q \in Names : MergeKeyMissing(EventTypeName, q)}}
                  \cup {"ValueError" : p \in {q \in Names :
                          MinMaxFails(EventTypeName, q, Source[q], Original[q])}}
      Merged   == [p \in Names |-> MergeProperty(EventTypeName, p, Source[p], Original[p])]
      \* lines 947-950: Source holds every property of the event type, so the
      \* list this loop walks is empty
      Dropped  == {p \in Names : p \notin DOMAIN Source /\ p \in DOMAIN Merged
                     /\ EventTypes[EventTypeName].properties[p]["merge"] = "replace"}
      Target   == [p \in Names |-> IF p \in Dropped THEN {} ELSE Merged[p]]
      EventUpdated == \E p \in Names : Target[p] # Original[p]
  IN  IF EventTypes[EventTypeName].unique = FALSE
      THEN [raised |-> {"EDXMLError"}, A |-> EventObjectsA, ret |-> None]
      ELSE IF Raises # {}
      THEN [raised |-> Raises, A |-> EventObjectsA, ret |-> None]
      ELSE IF EventUpdated
      THEN [raised |-> {}, A |-> Target, ret |-> TRUE]
      ELSE [raised |-> {}, A |-> EventObjectsA, ret |-> FALSE]

(***************************************************************************)
(* The input: events as the parser hands them to the mergers.              *)
(***************************************************************************)
Event(EventTypeName, SourceId, EventObjects, EventContent, Parents) ==
  [EventTypeName |-> EventTypeName, SourceId |-> SourceId,
   EventObjects |-> EventObjects, EventContent |-> EventContent, Parents |-> Parents]

SourceIds == {<<"1">>, <<"2">>}

\* Objects, content and parents of the events of the unique event type, but
\* for the value of the unique property.  One integer is written "05".
Payloads ==
  { [objects |-> << <<"a", <<"x">> >>, <<"m", <<"0", "5">> >>, <<"x", <<"5">> >>,
                    <<"r", <<"o">> >>, <<"d", <<"p">> >>, <<"t", <<"o">> >> >>,
     content |-> "c1", parents |-> <<>>],
    [objects |-> << <<"a", <<"y">> >>, <<"m", <<"1", "0">> >>, <<"x", <<"1", "0">> >>,
                    <<"d", <<"q">> >>, <<"t", <<"o">> >> >>,
     content |-> "c2", parents |-> <<"h1">>] }

\* Every event of key "p", of either source, and one event of key "q".
UniqueEvents ==
  { e \in { Event("eu", s, << <<"u", k>> >> \o p.objects, p.content, p.parents) :
              s \in SourceIds, k \in {<<"p">>, <<"q">>}, p \in Payloads } :
      e.EventObjects[1][2] = <<"p">> \/ (e.SourceId = <<"1">> /\ e.EventContent = "c1") }

PlainEvents ==
  { Event("en", <<"1">>, << <<"p", v>> >>, "c1", <<>>) : v \in {<<"1">>, <<"2">>} }

StreamEvents == UniqueEvents \cup PlainEvents

\* Lines 72-73 and 138-139: the objects of an event, grouped by property.
EventProperties(EventObjects) ==
  [Property \in {o[1] : o \in Range(EventObjects)} |->
     {o[2] : o \in {q \in Range(EventObjects) : q[1] = Property}}]

HashOf(e) == ComputeStickyHash(e.EventTypeName, e.EventObjects, e.EventContent)

(***************************************************************************)
(* EDXMLEventMerger: pass-through mode.                                    *)
(***************************************************************************)
\* The members of a set of strings, as a list.
RECURSIVE ListOf(_)
ListOf(S) == IF S = {} THEN <<>> ELSE LET v == StrMin(S) IN <<v>> \o ListOf(S \ {v})

\* Lines 78-81: the object list built from a dict of value lists.  The order of
\* a dict's items is not specified; every reader of the list takes the set of
\* its members, so the list is given in one fixed order.
RECURSIVE ObjectList(_, _)
ObjectList(Objects, Names) ==
  IF Names = <<>> THEN <<>>
  ELSE LET Property == Head(Names)
           Values   == ListOf(ValuesOf(Objects, Property))
       IN  [i \in 1..Len(Values) |-> <<Property, Values[i]>>]
             \o ObjectList(Objects, Tail(Names))

\* One call of EditEvent on the merger state HB: the exceptions it can end in,
\* self.HashBuffer after the call and the tuple returned.
EditEventResult(HB, e) ==
  LET Hash == HashOf(e)
      Props == EventProperties(e.EventObjects)
  IN  IF Hash \in DOMAIN HB
      THEN LET m == MergeEvents(e.EventTypeName, HB[Hash].Objects, Props)
           IN  [raised |-> m.raised,
                HashBuffer |-> [HB EXCEPT ![Hash] = [Objects |-> m.A]],
                returned |-> [EventObjects |->
                                ObjectList(m.A, GetEventTypeProperties(e.EventTypeName)),
                              EventContent |-> e.EventContent,
                              EventAttributes |-> e.Parents]]
      ELSE [raised |-> {},
            HashBuffer |-> HB @@ (Hash :> [Objects |-> Props]),
            returned |-> [EventObjects |-> e.EventObjects,
                          EventContent |-> e.EventContent,
                          EventAttributes |-> e.Parents]]

\* EditEvent on the next input event.  An exception leaves the handler before
\* anything is stored or returned, and ends the program.
EditEvent(e) ==
  LET r == EditEventResult(HashBuffer, e)
  IN  /\ input' = Append(input, e)
      /\ IF r.raised # {}
         THEN /\ phase' = "aborted"
              /\ ErrorCount' = ErrorCount + 1
              /\ UNCHANGED passVars
         ELSE /\ HashBuffer' = r.HashBuffer
              /\ edited' = Append(edited, r.returned)
              /\ UNCHANGED <<phase, ErrorCount>>
      /\ UNCHANGED <<registryVars, hashVars, validateVars, callVars, bufferVars, mergeVars, now>>

\* EDXMLEventEditor calls EditEvent for every event of the event groups.
EditorReadsEvent ==
  /\ phase = "eventgroups"
  /\ Len(input) < MaxStream
  /\ \E e \in StreamEvents : EditEvent(e)

InitRegistry ==
  /\ EventTypes = SchemaEventTypes
  /\ EventTypeNames = <<"eu", "ec", "et", "en", "eh">>
  /\ PropertyNames = SchemaPropertyNames
  /\ ObjectTypes = SchemaObjectTypes
  /\ ErrorCount = 0

InitPassIdle == HashBuffer = <<>> /\ edited = <<>>

InitBufferIdle ==
  /\ BufferSize = 0 /\ MaxLatency = 0 /\ MaxBufferSize = 0 /\ LastOutputTime = 0
  /\ Buffer = <<>> /\ Generator = <<>>
  /\ readAt = <<>> /\ insertedIds = {} /\ flushes = 0

InitChainIdle == argC = None /\ resLeft = <<>> /\ resRight = <<>>

InitMergeIdle ==
  /\ argA = None /\ argB = None /\ resAB = <<>> /\ resBA = <<>>
  /\ InitChainIdle
  /\ mergeType = None

InitHashIdle == hashArgs = None /\ hashV2 = <<>> /\ hashV3 = <<>>

InitValidateIdle == valArgs = None /\ dataTypeResult = None /\ objectResult = None

InitCallsIdle == SourceURLs = <<>> /\ SourceIDs = <<>> /\ lastCall = <<>>

InitPass ==
  /\ InitHashIdle /\ InitCallsIdle /\ InitValidateIdle
  /\ InitRegistry /\ InitPassIdle /\ InitBufferIdle /\ InitMergeIdle
  /\ now = 0 /\ phase = "eventgroups" /\ input = <<>>

NextPass == EditorReadsEvent

SpecPass == InitPass /\ [][NextPass]_vars

(***************************************************************************)
(* Pass-through mode: claims.                                              *)
(***************************************************************************)
\* The objects of an event as a property-to-value-set map: the set of its
\* (property, value) pairs.
ObjectSets(EventObjects) == Range(EventObjects)

\* The i-th output event, as the event a second merger would read.
OutputEvent(i) ==
  Event(input[i].EventTypeName, input[i].SourceId, edited[i].EventObjects,
        edited[i].EventContent, edited[i].EventAttributes)

\* A whole pass-through run of a fresh merger on the stream s.
RECURSIVE PassThroughRun(_)
PassThroughRun(s) ==
  IF s = <<>> THEN [HashBuffer |-> <<>>, edited |-> <<>>, aborted |-> FALSE]
  ELSE LET before == PassThroughRun(SubSeq(s, 1, Len(s) - 1))
           r      == EditEventResult(before.HashBuffer, s[Len(s)])
       IN  IF before.aborted THEN before
           ELSE IF r.raised # {} THEN [before EXCEPT !.aborted = TRUE]
           ELSE [HashBuffer |-> r.HashBuffer,
                 edited |-> Append(before.edited, r.returned),
                 aborted |-> FALSE]

\* C1: in pass-through mode every input event, of a unique event type or not,
\* has produced exactly one output event, and the i-th output event is the
\* i-th input event (same content, same attributes, same sticky hash).
C1_OneOutputPerInput ==
  /\ Len(edited) = Len(input)
  /\ \A i \in DOMAIN edited :
       /\ edited[i].EventContent = input[i].EventContent
       /\ edited[i].EventAttributes = input[i].Parents
       /\ HashOf(OutputEvent(i)) = HashOf(input[i])

\* C9: a second pass-through run, fed the output events of this run, returns
\* the same events again: as many, and each with the same value set for every
\* property, the same content and the same attributes.
C9_PassThroughIdempotent ==
  LET second == PassThroughRun([i \in DOMAIN edited |-> OutputEvent(i)])
  IN  /\ ~second.aborted
      /\ Len(second.edited) = Len(edited)
      /\ \A i \in DOMAIN edited :
           /\ ObjectSets(second.edited[i].EventObjects) = ObjectSets(edited[i].EventObjects)
           /\ second.edited[i].EventContent = edited[i].EventContent
           /\ second.edited[i].EventAttributes = edited[i].EventAttributes

\* C9 witness: the first run merged: it returned an event whose objects are
\* not those of the input event, after a third event of the same hash.
C9_Witness ==
  \E i \in DOMAIN edited :
    /\ ObjectSets(edited[i].EventObjects) # ObjectSets(input[i].EventObjects)
    /\ Cardinality({j \in 1..i : HashOf(input[j]) = HashOf(input[i])}) >= 3

(***************************************************************************)
(* BufferingEDXMLEventMerger: buffered mode.                               *)
(*                                                                         *)
(* A buffered event and the AddEvent call that writes it carry the history *)
(* field first: the index in input of the event that was inserted.  An     *)
(* AddEvent call also carries flush: the number of the FlushBuffer call    *)
(* that made it.  The program reads neither.                               *)
(***************************************************************************)
\* Line 129: '%s:%s' % (EventTypeName, SourceId), as its colon-separated fields.
GroupKey(EventTypeName, SourceId) == <<EventTypeName>> \o SourceId

\* What BufferEvent inserts for an event that is new to its group.
BufferEntry(e, idx) ==
  [EventTypeName |-> e.EventTypeName,
   SourceId      |-> e.SourceId,
   Objects       |-> EventProperties(e.EventObjects),
   EventContent  |-> e.EventContent,
   Parents       |-> e.Parents,
   first         |-> idx]

\* The buffer with an empty dict for the group of e, if it had none (130-131).
WithGroup(Buf, e) ==
  IF GroupKey(e.EventTypeName, e.SourceId) \in DOMAIN Buf THEN Buf
  ELSE Buf @@ (GroupKey(e.EventTypeName, e.SourceId) :> <<>>)

\* BufferEvent without the merge: an event whose hash is in the buffer is
\* dropped.  C2 tells it from BufferEvent.
BufferEventKeepsFirst(Buf, e, idx) ==
  LET Group == GroupKey(e.EventTypeName, e.SourceId)
      Buf1  == WithGroup(Buf, e)
  IN  IF HashOf(e) \in DOMAIN Buf1[Group]
      THEN [raised |-> {}, inserted |-> FALSE, Buffer |-> Buf1]
      ELSE [raised |-> {}, inserted |-> TRUE,
            Buffer |-> [Buf1 EXCEPT ![Group] = @ @@ (HashOf(e) :> BufferEntry(e, idx))]]

\* BufferEvent with a merge that also takes the content and the parents of
\* the later event.  C6 tells it from BufferEvent.
BufferEventTakesContent(Buf, e, idx) ==
  LET Group == GroupKey(e.EventTypeName, e.SourceId)
      Buf1  == WithGroup(Buf, e)
      Hash  == HashOf(e)
  IN  IF Hash \in DOMAIN Buf1[Group]
      THEN LET m == MergeEvents(e.EventTypeName, Buf1[Group][Hash].Objects,
                                EventProperties(e.EventObjects))
           IN  [raised |-> m.raised, inserted |-> FALSE,
                Buffer |-> [Buf1 EXCEPT ![Group][Hash].Objects = m.A,
                                        ![Group][Hash].EventContent = e.EventContent,
                                        ![Group][Hash].Parents = e.Parents]]
      ELSE [raised |-> {}, inserted |-> TRUE,
            Buffer |-> [Buf1 EXCEPT ![Group] = @ @@ (Hash :> BufferEntry(e, idx))]]

\* BufferEvent with the objects of the later event put in place of the merged
\* ones.  C8 tells it from BufferEvent.
BufferEventOverwrites(Buf, e, idx) ==
  LET Group == GroupKey(e.EventTypeName, e.SourceId)
      Buf1  == WithGroup(Buf, e)
      Hash  == HashOf(e)
  IN  IF Hash \in DOMAIN Buf1[Group]
      THEN [raised |-> MergeEvents(e.EventTypeName, Buf1[Group][Hash].Objects,
                                   EventProperties(e.EventObjects)).raised,
            inserted |-> FALSE,
            Buffer |-> [Buf1 EXCEPT ![Group][Hash].Objects =
                                      EventProperties(e.EventObjects)]]
      ELSE [raised |-> {}, inserted |-> TRUE,
            Buffer |-> [Buf1 EXCEPT ![Group] = @ @@ (Hash :> BufferEntry(e, idx))]]

\* Lines 129-155 but for the counter: self.Buffer after the event e, the idx-th
\* of the input, was merged into it or inserted, whether it was inserted, and
\* the exceptions MergeEvents can end in.
BufferEvent(Buf, e, idx) ==
  LET Group == GroupKey(e.EventTypeName, e.SourceId)
      Buf1  == WithGroup(Buf, e)
      Hash  == HashOf(e)
      Props == EventProperties(e.EventObjects)
  IN  IF Hash \in DOMAIN Buf1[Group]
      THEN LET m == MergeEvents(e.EventTypeName, Buf1[Group][Hash].Objects, Props)
           IN  [raised |-> m.raised, inserted |-> FALSE,
                Buffer |-> [Buf1 EXCEPT ![Group][Hash].Objects = m.A]]
      ELSE [raised |-> {}, inserted |-> TRUE,
            Buffer |-> [Buf1 EXCEPT ![Group] = @ @@ (Hash :> BufferEntry(e, idx))]]

\* FlushGroupCalls with an inner loop that stops after its first event.  C5
\* tells it from FlushGroupCalls.
FlushGroupCallsFirstOnly(Events, Group, HashOrder, flushNo) ==
  << [call |-> "OpenEventGroup", EventTypeName |-> Group[1], SourceId |-> <<Group[2]>>],
     [call |-> "AddEvent",
      Objects |-> Events[HashOrder[1]].Objects,
      EventContent |-> Events[HashOrder[1]].EventContent,
      Parents |-> Events[HashOrder[1]].Parents,
      first |-> Events[HashOrder[1]].first,
      flush |-> flushNo],
     [call |-> "CloseEventGroup"] >>

\* Lines 173-177: the calls FlushBuffer makes on the writer for one group.
FlushGroupCalls(Events, Group, HashOrder, flushNo) ==
  << [call |-> "OpenEventGroup", EventTypeName |-> Group[1], SourceId |-> <<Group[2]>>] >>
  \o [i \in 1..Len(HashOrder) |->
        [call |-> "AddEvent",
         Objects |-> Events[HashOrder[i]].Objects,
         EventContent |-> Events[HashOrder[i]].EventContent,
         Parents |-> Events[HashOrder[i]].Parents,
         first |-> Events[HashOrder[i]].first,
         flush |-> flushNo]]
  \o << [call |-> "CloseEventGroup"] >>

\* Lines 172-177: the loop over the groups, taken in GroupOrder.  Unpacking
\* Group.split(':') into two names raises ValueError unless it has two fields.
RECURSIVE FlushCalls(_, _, _, _)
FlushCalls(Buf, GroupOrder, HashOrders, flushNo) ==
  IF GroupOrder = <<>> THEN [calls |-> <<>>, raised |-> {}]
  ELSE LET Group == Head(GroupOrder)
           rest  == FlushCalls(Buf, Tail(GroupOrder), HashOrders, flushNo)
       IN  IF Len(Group) # 2 THEN [calls |-> <<>>, raised |-> {"ValueError"}]
           ELSE [calls |-> FlushGroupCalls(Buf[Group], Group, HashOrders[Group], flushNo)
                             \o rest.calls,
                 raised |-> rest.raised]

\* The orders in which the two loops of FlushBuffer can walk a buffer: the
\* items of a Python 2 dict come in an order that the keys' hash values fix,
\* not the order of insertion.
FlushOrders(Buf) ==
  { o \in [groups : Orderings(DOMAIN Buf),
           hashes : [DOMAIN Buf -> UNION {Orderings(DOMAIN Buf[g]) : g \in DOMAIN Buf}]] :
      \A g \in DOMAIN Buf : o.hashes[g] \in Orderings(DOMAIN Buf[g]) }

\* FlushBuffer without line 181: the buffer keeps the events written.  C4
\* tells it from FlushBuffer.
FlushBufferKeeps(st, o, t) ==
  LET f == FlushCalls(st.Buffer, o.groups, o.hashes, st.flushes + 1)
  IN  IF f.raised # {}
      THEN [st EXCEPT !.Generator = @ \o f.calls, !.raised = f.raised,
                      !.flushes = @ + 1]
      ELSE [Buffer |-> st.Buffer, BufferSize |-> 0, LastOutputTime |-> t,
            Generator |-> st.Generator \o f.calls, flushes |-> st.flushes + 1,
            raised |-> {}]

\* FlushBuffer on the merger state st, at wall-clock time t, walking the
\* buffer in the order o.
FlushBuffer(st, o, t) ==
  LET f == FlushCalls(st.Buffer, o.groups, o.hashes, st.flushes + 1)
  IN  IF f.raised # {}
      THEN [st EXCEPT !.Generator = @ \o f.calls, !.raised = f.raised,
                      !.flushes = @ + 1]
      ELSE [Buffer |-> <<>>, BufferSize |-> 0, LastOutputTime |-> t,
            Generator |-> st.Generator \o f.calls, flushes |-> st.flushes + 1,
            raised |-> {}]

\* The states FlushBuffer can leave when called in state st, or st when the
\* condition of the call does not hold.
FlushIf(Condition, st, t) ==
  IF Condition /\ st.raised = {}
  THEN {FlushBuffer(st, o, t) : o \in FlushOrders(st.Buffer)}
  ELSE {st}

\* ProcessEventOutcomes with line 157 moved out of the else branch: the
\* counter goes up for every event.  C3 tells it from ProcessEventOutcomes.
ProcessEventOutcomesCountsAll(st, e, idx, t) ==
  LET b      == BufferEvent(st.Buffer, e, idx)
      Stored == IF b.raised # {} THEN [st EXCEPT !.raised = b.raised]
                ELSE [st EXCEPT !.Buffer = b.Buffer, !.BufferSize = @ + 1]
      Full   == FlushIf(b.inserted /\ Stored.BufferSize >= MaxBufferSize, Stored, t)
  IN  UNION { FlushIf(s.BufferSize > 0 /\ MaxLatency > 0
                        /\ (t - s.LastOutputTime) >= MaxLatency, s, t) : s \in Full }

\* ProcessEventOutcomes with the test MaxLatency > 0 of line 161 left out.  C22
\* tells it from ProcessEventOutcomes.
ProcessEventOutcomesAnyLatency(st, e, idx, t) ==
  LET b      == BufferEvent(st.Buffer, e, idx)
      Stored == IF b.raised # {} THEN [st EXCEPT !.raised = b.raised]
                ELSE [st EXCEPT !.Buffer = b.Buffer,
                                !.BufferSize = IF b.inserted THEN @ + 1 ELSE @]
      Full   == FlushIf(b.inserted /\ Stored.BufferSize >= MaxBufferSize, Stored, t)
  IN  UNION { FlushIf(s.BufferSize > 0
                        /\ (t - s.LastOutputTime) >= MaxLatency, s, t) : s \in Full }

\* Lines 124-162: the states ProcessEvent can leave when it is called with the
\* event e, the idx-th of the input, in state st at wall-clock time t.
ProcessEventOutcomes(st, e, idx, t) ==
  LET b      == BufferEvent(st.Buffer, e, idx)
      Stored == IF b.raised # {} THEN [st EXCEPT !.raised = b.raised]
                ELSE [st EXCEPT !.Buffer = b.Buffer,
                                !.BufferSize = IF b.inserted THEN @ + 1 ELSE @]
      Full   == FlushIf(b.inserted /\ Stored.BufferSize >= MaxBufferSize, Stored, t)
  IN  UNION { FlushIf(s.BufferSize > 0 /\ MaxLatency > 0
                        /\ (t - s.LastOutputTime) >= MaxLatency, s, t) : s \in Full }

MergerState ==
  [Buffer |-> Buffer, BufferSize |-> BufferSize, LastOutputTime |-> LastOutputTime,
   Generator |-> Generator, flushes |-> flushes, raised |-> {}]

\* The merger's variables take the values of st; an exception ends the program.
Becomes(st) ==
  /\ Buffer' = st.Buffer
  /\ BufferSize' = st.BufferSize
  /\ LastOutputTime' = st.LastOutputTime
  /\ Generator' = st.Generator
  /\ flushes' = st.flushes

\* DefinitionsLoaded without line 122.  C7 tells it from DefinitionsLoaded.
DefinitionsLoadedNoOpen ==
  /\ Generator' = Generator \o << [call |-> "AddXmlDefinitionsElement"] >>
  /\ UNCHANGED <<registryVars, hashVars, validateVars, callVars, ErrorCount, passVars, mergeVars, now, input,
                 BufferSize, MaxLatency, MaxBufferSize, LastOutputTime, Buffer,
                 readAt, insertedIds, flushes>>

\* Lines 112-122: the definitions, then OpenEventGroups, go to the writer.
DefinitionsLoaded ==
  /\ Generator' = Generator \o << [call |-> "AddXmlDefinitionsElement"],
                                  [call |-> "OpenEventGroups"] >>
  /\ UNCHANGED <<registryVars, hashVars, validateVars, callVars, ErrorCount, passVars, mergeVars, now, input,
                 BufferSize, MaxLatency, MaxBufferSize, LastOutputTime, Buffer,
                 readAt, insertedIds, flushes>>

ProcessEvent(e) ==
  LET idx == Len(input) + 1
      b   == BufferEvent(Buffer, e, idx)
  IN  /\ input' = Append(input, e)
      /\ readAt' = Append(readAt, flushes)
      /\ insertedIds' = IF b.raised = {} /\ b.inserted
                        THEN insertedIds \cup {idx} ELSE insertedIds
      /\ \E st \in ProcessEventOutcomes(MergerState, e, idx, now) :
           /\ Becomes(st)
           /\ phase' = IF st.raised # {} THEN "aborted" ELSE phase
           /\ ErrorCount' = IF "EDXMLError" \in st.raised
                            THEN ErrorCount + 1 ELSE ErrorCount
      /\ UNCHANGED <<registryVars, hashVars, validateVars, callVars, passVars, mergeVars, now, MaxLatency, MaxBufferSize>>

EndOfStream ==
  /\ \E st \in FlushIf(TRUE, MergerState, now) :
       /\ Becomes([st EXCEPT !.Generator =
                     IF st.raised = {} THEN @ \o << [call |-> "CloseEventGroups"] >>
                     ELSE @])
       /\ phase' = IF st.raised # {} THEN "aborted" ELSE "done"
  /\ UNCHANGED <<registryVars, hashVars, validateVars, callVars, ErrorCount, passVars, mergeVars, now, input,
                 MaxLatency, MaxBufferSize, readAt, insertedIds>>

\* The parser (EDXMLParser) calls the three handlers as it reads the document:
\* the definitions first, then the events of the event groups, then the end.
ParserEndsDefinitions ==
  /\ phase = "definitions"
  /\ phase' = "eventgroups"
  /\ DefinitionsLoaded

ParserReadsEvent ==
  /\ phase = "eventgroups"
  /\ Len(input) < MaxStream
  /\ \E e \in StreamEvents : ProcessEvent(e)

ParserEndsDocument ==
  /\ phase = "eventgroups"
  /\ EndOfStream

\* The wall clock.
Tick ==
  /\ phase \in {"definitions", "eventgroups"}
  /\ now < MaxTime
  /\ now' = now + 1
  /\ UNCHANGED <<registryVars, hashVars, validateVars, callVars, ErrorCount, passVars, bufferVars, mergeVars, phase, input>>

\* The -l options tried: none (0) and one.
Latencies == {0, 1}

\* The -b options tried; line 258 takes the buffered merger only for -b > 1.
BufferSizes == {2, 3}

InitBuffered ==
  /\ InitHashIdle /\ InitCallsIdle /\ InitValidateIdle
  /\ InitRegistry /\ InitPassIdle /\ InitMergeIdle
  /\ now = 0 /\ phase = "definitions" /\ input = <<>>
  /\ BufferSize = 0
  /\ MaxLatency \in Latencies
  /\ MaxBufferSize \in BufferSizes
  /\ LastOutputTime = now
  /\ Buffer = <<>>
  /\ Generator = <<>>
  /\ readAt = <<>>
  /\ insertedIds = {}
  /\ flushes = 0

NextBuffered ==
  \/ ParserEndsDefinitions
  \/ ParserReadsEvent
  \/ ParserEndsDocument
  \/ Tick

SpecBuffered == InitBuffered /\ [][NextBuffered]_vars

(***************************************************************************)
(* Buffered mode: claims.                                                  *)
(***************************************************************************)
GroupOf(e) == GroupKey(e.EventTypeName, e.SourceId)

Triple(e) == <<e.EventTypeName, e.SourceId, HashOf(e)>>

\* The positions of the AddEvent calls in the writer's log.
AddEvents == {i \in DOMAIN Generator : Generator[i].call = "AddEvent"}

\* The events held in the buffer.
Buffered == UNION {{Buffer[g][h] : h \in DOMAIN Buffer[g]} : g \in DOMAIN Buffer}

\* A dict of value lists as a property-to-value-set map: its (property, value) pairs.
PairsOf(Objects) == UNION {{<<p, v>> : v \in Objects[p]} : p \in DOMAIN Objects}

\* The objects left by merging the events of the list s, in order, into its first.
RECURSIVE MergedObjects(_)
MergedObjects(s) ==
  IF Len(s) = 1 THEN EventProperties(s[1].EventObjects)
  ELSE MergeEvents(s[1].EventTypeName, MergedObjects(SubSeq(s, 1, Len(s) - 1)),
                   EventProperties(s[Len(s)].EventObjects)).A

\* The input events that have the triple of the event e, in arrival order.
SameTriple(e) ==
  LET Same(x) == Triple(x) = Triple(e) IN SelectSeq(input, Same)

\* C2: when the only flush of a buffered run is the one of EndOfStream, the
\* run writes one event for each (event type, source id, hash) of the input,
\* and each carries the objects got by merging, in arrival order, all input
\* events of its triple.
C2_OneMergedEventPerTriple ==
  (phase = "done" /\ flushes = 1) =>
    /\ Cardinality(AddEvents) = Cardinality({Triple(input[j]) : j \in DOMAIN input})
    /\ \A j \in DOMAIN input :
         \E i \in AddEvents : Triple(input[Generator[i].first]) = Triple(input[j])
    /\ \A i \in AddEvents :
         PairsOf(Generator[i].Objects)
           = PairsOf(MergedObjects(SameTriple(input[Generator[i].first])))

\* C2 witness: such a run that wrote two events, one of them merged from
\* two input events that changed it.
C2_Witness ==
  /\ phase = "done" /\ flushes = 1
  /\ Cardinality(AddEvents) = 2
  /\ \E i \in AddEvents :
       /\ Len(SameTriple(input[Generator[i].first])) = 2
       /\ PairsOf(Generator[i].Objects)
            # ObjectSets(input[Generator[i].first].EventObjects)

\* C3: BufferSize is the number of events held in Buffer over all groups, and
\* stays below MaxBufferSize.
C3_BufferSizeCounts ==
  /\ BufferSize = Cardinality(UNION {{<<g, h>> : h \in DOMAIN Buffer[g]} : g \in DOMAIN Buffer})
  /\ BufferSize < MaxBufferSize

\* C3 witness: after a flush the buffer holds an event again, into which a
\* later event of the same hash was merged.
C3_Witness ==
  /\ flushes >= 1 /\ BufferSize >= 1
  /\ \E b \in Buffered : \E j \in DOMAIN input :
       j > b.first /\ readAt[j] = flushes /\ Triple(input[j]) = Triple(input[b.first])

C5_InsertionOrder ==
  \A i \in AddEvents :
    (i + 1) \in AddEvents => Generator[i].first < Generator[i + 1].first

\* The AddEvent calls between the OpenEventGroup call at position i and the
\* CloseEventGroup call that follows it.
Section(i) ==
  LET close == SetMin({j \in DOMAIN Generator :
                         j > i /\ Generator[j].call = "CloseEventGroup"})
  IN  (i + 1)..(close - 1)

\* C5 as amended: the events a flush writes for one group are the events
\* inserted into that group since the flush before, each written once, in
\* some order.
C5_GroupWrittenOnce ==
  \A i \in DOMAIN Generator :
    Generator[i].call = "OpenEventGroup" =>
      /\ \E j \in DOMAIN Generator : j > i /\ Generator[j].call = "CloseEventGroup"
      /\ LET S == Section(i)
             n == Generator[i + 1].flush
         IN  /\ S \subseteq AddEvents
             /\ S # {}
             /\ {Generator[k].first : k \in S}
                  = {id \in insertedIds :
                       /\ readAt[id] = n - 1
                       /\ GroupOf(input[id])
                            = GroupKey(Generator[i].EventTypeName, Generator[i].SourceId)}
             /\ \A k, l \in S :
                  Generator[k].first = Generator[l].first => k = l

\* C5 witness: a flush wrote two events of one group in the order opposite to
\* that of their insertion.
C5_Witness ==
  \E i \in AddEvents :
    (i + 1) \in AddEvents /\ Generator[i].first > Generator[i + 1].first

\* C6: a buffered event keeps the content, parents, event type name and
\* source id of the first event of its group and hash read since the last
\* flush, whatever events were merged into it; and so does the event written.
C6_FirstOccurrenceKept ==
  /\ \A g \in DOMAIN Buffer : \A h \in DOMAIN Buffer[g] :
       LET b == Buffer[g][h]
           f == input[b.first]
       IN  /\ GroupOf(f) = g /\ HashOf(f) = h /\ readAt[b.first] = flushes
           /\ \A j \in DOMAIN input :
                (readAt[j] = flushes /\ GroupOf(input[j]) = g /\ HashOf(input[j]) = h)
                  => j >= b.first
           /\ b.EventContent = f.EventContent
           /\ b.Parents = f.Parents
           /\ b.EventTypeName = f.EventTypeName
           /\ b.SourceId = f.SourceId
  /\ \A i \in AddEvents :
       /\ Generator[i].EventContent = input[Generator[i].first].EventContent
       /\ Generator[i].Parents = input[Generator[i].first].Parents

\* C6 witness: an event with other content and other parents was merged into
\* a buffered event, and changed its objects.
C6_Witness ==
  \E b \in Buffered : \E j \in DOMAIN input :
    /\ j > b.first /\ readAt[j] = flushes
    /\ Triple(input[j]) = Triple(input[b.first])
    /\ input[j].EventContent # b.EventContent
    /\ input[j].Parents # b.Parents
    /\ PairsOf(b.Objects) # ObjectSets(input[b.first].EventObjects)

\* C7: the writer is given the definitions and told to open the event groups
\* section before any OpenEventGroup or AddEvent call.
C7_DefinitionsFirst ==
  (\E i \in DOMAIN Generator : Generator[i].call \in {"OpenEventGroup", "AddEvent"}) =>
    /\ Generator[1].call = "AddXmlDefinitionsElement"
    /\ Generator[2].call = "OpenEventGroups"
    /\ \A i \in DOMAIN Generator :
         Generator[i].call \in {"OpenEventGroup", "AddEvent"} => i > 2

\* C7 witness: an event was written.
C7_Witness == AddEvents # {} /\ Generator[3].call = "OpenEventGroup"

\* The last event written for each sticky hash, as (property, value) pairs:
\* by the buffered merger of this run, and by a pass-through merger reading
\* the same input.
BufferedFinal ==
  LET hashOf(i) == HashOf(input[Generator[i].first])
  IN  [h \in {hashOf(i) : i \in AddEvents} |->
         PairsOf(Generator[SetMax({i \in AddEvents : hashOf(i) = h})].Objects)]

PassThroughFinal ==
  LET run == PassThroughRun(input)
  IN  [h \in {HashOf(input[i]) : i \in DOMAIN run.edited} |->
         ObjectSets(run.edited[SetMax({i \in DOMAIN run.edited : HashOf(input[i]) = h})]
                      .EventObjects)]

\* C8 as claimed: for any stream and buffer size, the last event the buffered
\* merger writes for a hash has the objects of the last event the
\* pass-through merger returns for it.
C8_BufferedEqualsPassThrough ==
  phase = "done" => BufferedFinal = PassThroughFinal

\* Events of equal hash come from the same source.
OneSourcePerHash ==
  \A i, j \in DOMAIN input :
    HashOf(input[i]) = HashOf(input[j]) => input[i].SourceId = input[j].SourceId

\* C8 as amended: the same, for a buffered run whose only flush is the one of
\* EndOfStream, on a stream whose events of equal hash share their source id.
C8_EqualWithoutEarlyFlush ==
  (phase = "done" /\ flushes = 1 /\ OneSourcePerHash) => BufferedFinal = PassThroughFinal

\* C8 witness: such a run, of three events of one hash and two sources apart.
C8_Witness ==
  /\ phase = "done" /\ flushes = 1 /\ OneSourcePerHash
  /\ \E i \in AddEvents : Len(SameTriple(input[Generator[i].first])) = 2
  /\ Cardinality({input[j].SourceId : j \in DOMAIN input}) = 2

(***************************************************************************)
(* MergeEvents called on its own, on two object maps of the unique event   *)
(* type "ec", in both orders.                                              *)
(***************************************************************************)
MergeType == "ec"

\* The dicts passed: every object map of a valid event of the type, over two
\* values a property.  The properties merged by min, max and match are
\* mandatory and hold one value; the add property may be absent.
ObjectMaps ==
  { ("u" :> {k}) @@ (IF a = {} THEN <<>> ELSE ("a" :> a))
      @@ ("m" :> {n}) @@ ("x" :> {n}) @@ ("d" :> {d}) @@ ("t" :> {t}) :
      k \in {<<"p">>, <<"q">>},
      a \in {{}, {<<"x">>}, {<<"y">>}},
      n \in {<<"3">>, <<"1", "0">>},
      d \in {<<"o">>, <<"p">>},
      t \in {<<"o">>, <<"p">>} }

CallMergeAB ==
  /\ phase = "calls"
  /\ resAB = <<>>
  /\ resAB' = <<MergeEvents(MergeType, argA, argB)>>
  /\ UNCHANGED <<registryVars, hashVars, validateVars, callVars, ErrorCount, passVars, bufferVars, now, phase, input,
                 argA, argB, resBA, chainVars, mergeType>>

CallMergeBA ==
  /\ phase = "calls"
  /\ resBA = <<>>
  /\ resBA' = <<MergeEvents(MergeType, argB, argA)>>
  /\ UNCHANGED <<registryVars, hashVars, validateVars, callVars, ErrorCount, passVars, bufferVars, now, phase, input,
                 argA, argB, resAB, chainVars, mergeType>>

InitMerge ==
  /\ InitHashIdle /\ InitCallsIdle /\ InitValidateIdle
  /\ InitRegistry /\ InitPassIdle /\ InitBufferIdle
  /\ now = 0 /\ phase = "calls" /\ input = <<>>
  /\ argA \in ObjectMaps
  /\ argB \in ObjectMaps
  /\ resAB = <<>>
  /\ resBA = <<>>
  /\ InitChainIdle
  /\ mergeType = MergeType

NextMerge ==
  \/ CallMergeAB
  \/ CallMergeBA

SpecMerge == InitMerge /\ [][NextMerge]_vars

(***************************************************************************)
(* MergeEvents: claims.                                                    *)
(***************************************************************************)
\* The properties of the event type that MergeEvents leaves as the target has
\* them: the unique ones, and those merged by drop or match.
KeptProperties(EventTypeName) ==
  {p \in Range(GetEventTypeProperties(EventTypeName)) :
     \/ p \in EventTypes[EventTypeName].uniqueProperties
     \/ EventTypes[EventTypeName].properties[p]["merge"] \in {"drop", "match"}}

\* C10 as claimed: for an event type with no replace property, merging B into
\* A and merging A into B leave the same value set for every property.
C10_MergeCommutative ==
  (resAB # <<>> /\ resBA # <<>>) => PairsOf(resAB[1].A) = PairsOf(resBA[1].A)

\* C10 as amended: both merges return, and leave the same value set for every
\* property merged by add, min or max; a unique, drop or match property keeps
\* the values of the target of the call, so the two results are equal exactly
\* when A and B hold the same values for these properties.
C10_CommutativeWhereMerged ==
  (resAB # <<>> /\ resBA # <<>>) =>
    /\ resAB[1].raised = {} /\ resBA[1].raised = {}
    /\ \A p \in Range(GetEventTypeProperties(MergeType)) \ KeptProperties(MergeType) :
         ValuesOf(resAB[1].A, p) = ValuesOf(resBA[1].A, p)
    /\ \A p \in KeptProperties(MergeType) :
         /\ ValuesOf(resAB[1].A, p) = ValuesOf(argA, p)
         /\ ValuesOf(resBA[1].A, p) = ValuesOf(argB, p)
    /\ (PairsOf(resAB[1].A) = PairsOf(resBA[1].A))
         <=> (\A p \in KeptProperties(MergeType) : ValuesOf(argA, p) = ValuesOf(argB, p))

\* C10 witness: both merges were made, of two maps that agree on the unique,
\* drop and match properties and differ on the add, min and max properties,
\* and both changed their target.
C10_Witness ==
  /\ resAB # <<>> /\ resBA # <<>>
  /\ \A p \in KeptProperties(MergeType) : ValuesOf(argA, p) = ValuesOf(argB, p)
  /\ \A p \in {"a", "m", "x"} : ValuesOf(argA, p) # ValuesOf(argB, p)
  /\ resAB[1].ret = TRUE /\ resBA[1].ret = TRUE

(***************************************************************************)
(* MergeEvents called twice in a row on three object maps: B into A and    *)
(* then C into A, or C into B and then B into A.                           *)
(***************************************************************************)
\* MergeEvents(B, C) and then MergeEvents(A, B): the second call is made on
\* the dict B as the first call left it, unless the first call raised.
MergeRight(EventTypeName, EventObjectsA, EventObjectsB, EventObjectsC) ==
  LET inner == MergeEvents(EventTypeName, EventObjectsB, EventObjectsC)
  IN  IF inner.raised # {}
      THEN [raised |-> inner.raised, A |-> EventObjectsA, ret |-> None]
      ELSE MergeEvents(EventTypeName, EventObjectsA, inner.A)

\* MergeEvents(A, B) and then MergeEvents(A, C).
MergeLeft(EventTypeName, EventObjectsA, EventObjectsB, EventObjectsC) ==
  LET first == MergeEvents(EventTypeName, EventObjectsA, EventObjectsB)
  IN  IF first.raised # {} THEN first
      ELSE MergeEvents(EventTypeName, first.A, EventObjectsC)

\* The dicts passed: the object maps whose drop and match properties hold the
\* same value.
ChainMaps == {m \in ObjectMaps : m["d"] = m["t"]}

CallMergeLeft ==
  /\ phase = "calls"
  /\ resLeft = <<>>
  /\ resLeft' = <<MergeLeft(MergeType, argA, argB, argC)>>
  /\ UNCHANGED <<registryVars, hashVars, validateVars, callVars, ErrorCount, passVars, bufferVars, now, phase, input,
                 argA, argB, resAB, resBA, argC, resRight, mergeType>>

CallMergeRight ==
  /\ phase = "calls"
  /\ resRight = <<>>
  /\ resRight' = <<MergeRight(MergeType, argA, argB, argC)>>
  /\ UNCHANGED <<registryVars, hashVars, validateVars, callVars, ErrorCount, passVars, bufferVars, now, phase, input,
                 argA, argB, resAB, resBA, argC, resLeft, mergeType>>

InitChain ==
  /\ InitHashIdle /\ InitCallsIdle /\ InitValidateIdle
  /\ InitRegistry /\ InitPassIdle /\ InitBufferIdle
  /\ now = 0 /\ phase = "calls" /\ input = <<>>
  /\ argA \in ChainMaps
  /\ argB \in ChainMaps
  /\ argC \in ChainMaps
  /\ resAB = <<>> /\ resBA = <<>>
  /\ resLeft = <<>> /\ resRight = <<>>
  /\ mergeType = MergeType

NextChain ==
  \/ CallMergeLeft
  \/ CallMergeRight

SpecChain == InitChain /\ [][NextChain]_vars

\* C11: for object maps A, B, C of an event type whose properties are merged
\* by add, min, max, drop and match, merging into A the result of merging C
\* into B leaves the same value set for every property as merging B into A and
\* then C into A; neither raises.
C11_MergeAssociative ==
  (resLeft # <<>> /\ resRight # <<>>) =>
    /\ resLeft[1].raised = {} /\ resRight[1].raised = {}
    /\ PairsOf(resLeft[1].A) = PairsOf(resRight[1].A)

\* C11 witness: both were done on three maps that differ from one another in
\* the add property and the drop property, two of them in the min and max
\* properties, and A was changed.
C11_Witness ==
  /\ resLeft # <<>> /\ resRight # <<>>
  /\ Cardinality({ValuesOf(argA, "a"), ValuesOf(argB, "a"), ValuesOf(argC, "a")}) = 3
  /\ argA["d"] # argB["d"] /\ argB["d"] # argC["d"]
  /\ argA["m"] # argB["m"] /\ argB["m"] = argC["m"]
  /\ PairsOf(resLeft[1].A) # PairsOf(argA)

(***************************************************************************)
(* One MergeEvents call, on two object maps of any event type of the       *)
(* schema.                                                                 *)
(***************************************************************************)
\* The dicts passed for an event type: object maps of valid events of it.
CallMaps(EventTypeName) ==
  CASE EventTypeName = "eu" ->
         { ("u" :> {k}) @@ (IF a = {} THEN <<>> ELSE ("a" :> a))
             @@ ("m" :> {n}) @@ ("x" :> {n})
             @@ (IF r = {} THEN <<>> ELSE ("r" :> r))
             @@ ("d" :> {d}) @@ ("t" :> {<<"o">>}) :
             k \in {<<"p">>, <<"q">>},
             a \in {{}, {<<"x">>}, {<<"y">>}},
             n \in {<<"3">>, <<"0", "5">>, <<"1", "0">>},
             r \in {{}, {<<"o">>}, {<<"p">>}},
             d \in {<<"o">>, <<"p">>} }
    [] EventTypeName = "et" ->
         { ("u" :> {<<"p">>}) @@ ("s" :> {ts}) @@ ("e" :> {ts})
             @@ ("f" :> {fl}) @@ ("g" :> {fl}) :
             ts \in {<<"9", ".", "0", "0", "0", "0", "0", "0">>,
                     <<"1", "0", ".", "0", "0", "0", "0", "0", "0">>},
             fl \in {<<"1", ".", "5", "0", "0", "0", "0", "0">>,
                     <<"2", ".", "0", "0", "0", "0", "0", "0">>} }
    [] EventTypeName = "en" ->
         { ("p" :> {v}) : v \in {<<"1">>, <<"2">>} }

CallMergeEvents ==
  /\ phase = "calls"
  /\ resAB = <<>>
  /\ resAB' = <<MergeEvents(mergeType, argA, argB)>>
  /\ ErrorCount' = IF "EDXMLError" \in MergeEvents(mergeType, argA, argB).raised
                   THEN ErrorCount + 1 ELSE ErrorCount
  /\ UNCHANGED <<registryVars, hashVars, validateVars, callVars, passVars, bufferVars, now, phase, input,
                 argA, argB, resBA, chainVars, mergeType>>

InitCalls ==
  /\ InitHashIdle /\ InitCallsIdle /\ InitValidateIdle
  /\ InitRegistry /\ InitPassIdle /\ InitBufferIdle /\ InitChainIdle
  /\ now = 0 /\ phase = "calls" /\ input = <<>>
  /\ mergeType \in {"eu", "et", "en"}
  /\ argA \in CallMaps(mergeType)
  /\ argB \in CallMaps(mergeType)
  /\ resAB = <<>>
  /\ resBA = <<>>

NextCalls == CallMergeEvents

SpecCalls == InitCalls /\ [][NextCalls]_vars

\* The merge strategy of a property that is not unique, None for a unique one.
StrategyOf(EventTypeName, PropertyName) ==
  IF PropertyName \in EventTypes[EventTypeName].uniqueProperties THEN None
  ELSE EventTypes[EventTypeName].properties[PropertyName]["merge"]

\* C12: a MergeEvents call that returns leaves A[p] as it was for a unique
\* property and for a property merged by drop or match, leaves the union of
\* A[p] and B[p] for add, and leaves B[p] for replace: no value when B has
\* none for p.
C12_StrategyEffects ==
  (resAB # <<>> /\ resAB[1].raised = {}) =>
    \A p \in Range(GetEventTypeProperties(mergeType)) :
      LET after == ValuesOf(resAB[1].A, p)
          strategy == StrategyOf(mergeType, p)
      IN  /\ strategy \in {None, "drop", "match"} => after = ValuesOf(argA, p)
          /\ strategy = "add" => after = ValuesOf(argA, p) \cup ValuesOf(argB, p)
          /\ strategy = "replace" => after = ValuesOf(argB, p)

\* C12 witness: a call that emptied a replace property of A, added a value to
\* an add property, and kept the drop property of A against another in B.
C12_Witness ==
  /\ resAB # <<>> /\ resAB[1].raised = {} /\ mergeType = "eu"
  /\ ValuesOf(argA, "r") # {} /\ ValuesOf(argB, "r") = {}
  /\ ValuesOf(resAB[1].A, "r") = {}
  /\ Cardinality(ValuesOf(resAB[1].A, "a")) = 2
  /\ argA["d"] # argB["d"]

\* The number a value of a number or timestamp data type stands for: whole,
\* or in millionths.
NumberOf(Value, DataType) ==
  IF DataType[1] = "number" /\ DataType[2] \in IntegerTypes
  THEN ParseInt(Value) ELSE ParseFixed(Value)

\* C13: a MergeEvents call that returns leaves, for a min (max) property of a
\* number or timestamp data type, one value: the numerically smallest
\* (largest) of the values of A[p] and B[p], in normalized form.
C13_MinMaxCanonical ==
  (resAB # <<>> /\ resAB[1].raised = {}) =>
    \A p \in Range(GetEventTypeProperties(mergeType)) :
      LET dt  == GetObjectTypeDataType(GetPropertyObjectType(mergeType, p))
          all == {NumberOf(v, dt) : v \in ValuesOf(argA, p) \cup ValuesOf(argB, p)}
      IN  (StrategyOf(mergeType, p) \in {"min", "max"}
             /\ dt[1] \in {"number", "timestamp"}) =>
            /\ Cardinality(ValuesOf(resAB[1].A, p)) = 1
            /\ \A v \in ValuesOf(resAB[1].A, p) :
                 /\ NormalizeObject(v, dt) = v
                 /\ NumberOf(v, dt) = IF StrategyOf(mergeType, p) = "min"
                                      THEN SetMin(all) ELSE SetMax(all)

\* The same for the properties of integer type only, which is where it holds.
C13_IntegerMinMax ==
  (resAB # <<>> /\ resAB[1].raised = {}) =>
    \A p \in Range(GetEventTypeProperties(mergeType)) :
      LET dt  == GetObjectTypeDataType(GetPropertyObjectType(mergeType, p))
          all == {NumberOf(v, dt) : v \in ValuesOf(argA, p) \cup ValuesOf(argB, p)}
      IN  (StrategyOf(mergeType, p) \in {"min", "max"}
             /\ dt[1] = "number" /\ dt[2] \in IntegerTypes) =>
            /\ Cardinality(ValuesOf(resAB[1].A, p)) = 1
            /\ \A v \in ValuesOf(resAB[1].A, p) :
                 /\ NormalizeObject(v, dt) = v
                 /\ NumberOf(v, dt) = IF StrategyOf(mergeType, p) = "min"
                                      THEN SetMin(all) ELSE SetMax(all)

\* C14: a MergeEvents call that returns, returns True exactly when the value
\* set of some property of A was changed, and after False the dict A is the
\* dict that was passed.
C14_ReturnsTrueIffChanged ==
  (resAB # <<>> /\ resAB[1].raised = {}) =>
    /\ resAB[1].ret \in {TRUE, FALSE}
    /\ (resAB[1].ret = TRUE) <=>
         (\E p \in Range(GetEventTypeProperties(mergeType)) :
            ValuesOf(resAB[1].A, p) # ValuesOf(argA, p))
    /\ (resAB[1].ret = FALSE) => resAB[1].A = argA

\* C14 witness: a call returned False on two maps that differ (in the drop
\* property only).
C14_Witness ==
  /\ resAB # <<>> /\ resAB[1].raised = {} /\ mergeType = "eu"
  /\ resAB[1].ret = FALSE
  /\ argA # argB

\* C14 second witness: a call returned True.
C14_WitnessTrue ==
  /\ resAB # <<>> /\ resAB[1].raised = {} /\ resAB[1].ret = TRUE

\* C15: a MergeEvents call for an event type that is not unique raises
\* EDXMLError, after counting the error, and leaves the dict A as it was
\* passed; the call does not write to B.
C15_NonUniqueRaises ==
  (resAB # <<>> /\ EventTypes[mergeType].unique = FALSE) =>
    /\ resAB[1].raised = {"EDXMLError"}
    /\ resAB[1].A = argA
    /\ ErrorCount = 1

\* C15 witness: the call was made for the event type that is not unique, on
\* two maps that differ.
C15_Witness ==
  /\ resAB # <<>> /\ mergeType = "en" /\ argA # argB
  /\ resAB[1].raised # {}


(***************************************************************************)
(* ComputeStickyHash and ComputeStickyHashV3 called on two events of one   *)
(* event type and one source, the second event a variation of the first.   *)
(***************************************************************************)
MaxObjects == 2

HashTypes == {"et", "eh"}

HashUrls == {<<"/", "a", "/">>, <<"/", "b", "/">>}

HashContents == {<<>>, <<"c", NL>>}

\* The (property, value) pairs the objects of an event are drawn from.
HashPairs(EventTypeName) ==
  CASE EventTypeName = "et" ->
         { <<"u", <<"p">> >>, <<"u", <<"q">> >>,
           <<"s", <<"9", ".", "0", "0", "0", "0", "0", "0">> >>,
           <<"f", <<"1", ".", "5", "0", "0", "0", "0", "0">> >>,
           <<"f", <<"2", ".", "0", "0", "0", "0", "0", "0">> >> }
    [] EventTypeName = "eh" ->
         { <<"p", <<"1">> >>, <<"p", <<"2">> >>,
           <<"f", <<"1", ".", "5", "0", "0", "0", "0", "0">> >>,
           <<"f", <<"2", ".", "0", "0", "0", "0", "0", "0">> >> }

ObjectLists(EventTypeName, n) ==
  UNION { [1..k -> HashPairs(EventTypeName)] : k \in 0..n }

IsFloatProperty(EventTypeName, PropertyName) ==
  LET DataType == GetObjectTypeDataType(GetPropertyObjectType(EventTypeName, PropertyName))
  IN  DataType[1] = "number" /\ DataType[2] \in {"float", "double"}

Count(L, x) == Cardinality({i \in DOMAIN L : L[i] = x})

\* B holds the objects of A in another order.
IsPermutation(A, B) ==
  /\ Len(A) = Len(B)
  /\ \A x \in Range(A) \cup Range(B) : Count(A, x) = Count(B, x)

\* B repeats (property, value) pairs of A, or A repeats pairs of B.
IsDuplication(A, B) ==
  /\ Range(A) = Range(B)
  /\ \/ \E x \in Range(A) : Count(A, x) # Count(B, x)
     \/ A = B

\* The objects of the properties that are not float, in the order of the list.
NonFloatObjects(EventTypeName, L) ==
  LET Test(o) == ~IsFloatProperty(EventTypeName, o[1]) IN SelectSeq(L, Test)

\* A and B differ in nothing but objects of float properties.
FloatsDiffer(EventTypeName, A, B) ==
  NonFloatObjects(EventTypeName, A) = NonFloatObjects(EventTypeName, B)

\* The objects of the unique properties, in the order of the list.
UniqueObjects(EventTypeName, L) ==
  LET Test(o) == PropertyIsUnique(EventTypeName, o[1]) IN SelectSeq(L, Test)

\* A and B differ in nothing but objects of properties that are not unique.
NonUniqueDiffer(EventTypeName, A, B) ==
  UniqueObjects(EventTypeName, A) = UniqueObjects(EventTypeName, B)

CallComputeStickyHash ==
  /\ phase = "hash"
  /\ hashV2 = <<>>
  /\ hashV2' = << [ a |-> StickyHashInput(hashArgs.type, hashArgs.A, hashArgs.contentA),
                    b |-> StickyHashInput(hashArgs.type, hashArgs.B, hashArgs.contentB) ] >>
  /\ UNCHANGED <<registryVars, callVars, ErrorCount, passVars, bufferVars, mergeVars,
                 now, phase, input, validateVars, hashArgs, hashV3>>

CallComputeStickyHashV3 ==
  /\ phase = "hash"
  /\ hashV3 = <<>>
  /\ hashV3' = << [ a |-> StickyHashInputV3(hashArgs.type, hashArgs.url, hashArgs.A,
                                            hashArgs.contentA),
                    b |-> StickyHashInputV3(hashArgs.type, hashArgs.url, hashArgs.B,
                                            hashArgs.contentB) ] >>
  /\ UNCHANGED <<registryVars, callVars, ErrorCount, passVars, bufferVars, mergeVars,
                 now, phase, input, validateVars, hashArgs, hashV2>>

InitHash ==
  /\ InitRegistry /\ InitPassIdle /\ InitBufferIdle /\ InitMergeIdle /\ InitCallsIdle /\ InitValidateIdle
  /\ now = 0 /\ phase = "hash" /\ input = <<>>
  /\ hashV2 = <<>>
  /\ hashV3 = <<>>
  /\ \E t \in HashTypes, u \in HashUrls, ca \in HashContents, cb \in HashContents :
       \E A \in ObjectLists(t, MaxObjects), B \in ObjectLists(t, MaxObjects + 1) :
          /\ \/ ca = cb /\ IsPermutation(A, B)
             \/ ca = cb /\ IsDuplication(A, B)
             \/ ca = cb /\ FloatsDiffer(t, A, B)
             \/ SchemaEventTypes[t].unique /\ NonUniqueDiffer(t, A, B)
             \/ A = B
          /\ hashArgs = [type |-> t, url |-> u, A |-> A, contentA |-> ca,
                         B |-> B, contentB |-> cb]

NextHash == CallComputeStickyHash \/ CallComputeStickyHashV3

SpecHash == InitHash /\ [][NextHash]_vars

\* C16: two events of one type, source and content whose object lists differ
\* only in the order of the objects, in repeated (property, value) pairs, or in
\* objects of float properties have the same v2 hash and the same v3 hash.
C16_HashInvariant ==
  ( /\ hashArgs.contentA = hashArgs.contentB
    /\ \/ IsPermutation(hashArgs.A, hashArgs.B)
       \/ IsDuplication(hashArgs.A, hashArgs.B)
       \/ FloatsDiffer(hashArgs.type, hashArgs.A, hashArgs.B) )
  => /\ hashV2 # <<>> => hashV2[1].a = hashV2[1].b
     /\ hashV3 # <<>> => hashV3[1].a = hashV3[1].b

\* Both hashes were computed for two events with the same object that is not
\* float and one float object each, of another value.
C16_Witness ==
  /\ hashV2 # <<>> /\ hashV3 # <<>>
  /\ hashArgs.contentA = hashArgs.contentB
  /\ FloatsDiffer(hashArgs.type, hashArgs.A, hashArgs.B)
  /\ Len(NonFloatObjects(hashArgs.type, hashArgs.A)) = 1
  /\ \E i \in DOMAIN hashArgs.A, j \in DOMAIN hashArgs.B :
       /\ hashArgs.A[i][1] = "f" /\ hashArgs.B[j][1] = "f"
       /\ Range(hashArgs.A) \ Range(hashArgs.B) = {hashArgs.A[i]}
       /\ Range(hashArgs.B) \ Range(hashArgs.A) = {hashArgs.B[j]}

\* Two events hold the same objects in another order.
C16_WitnessPermuted ==
  /\ hashV2 # <<>> /\ hashV3 # <<>>
  /\ hashArgs.A # hashArgs.B
  /\ Len(hashArgs.A) = MaxObjects
  /\ Cardinality(Range(hashArgs.A)) = MaxObjects
  /\ IsPermutation(hashArgs.A, hashArgs.B)

\* The second event repeats an object of the first.
C16_WitnessDuplicated ==
  /\ hashV2 # <<>> /\ hashV3 # <<>>
  /\ Len(hashArgs.B) > Len(hashArgs.A)
  /\ IsDuplication(hashArgs.A, hashArgs.B)
  /\ \E i \in DOMAIN hashArgs.A : ~IsFloatProperty(hashArgs.type, hashArgs.A[i][1])

C17_WitnessContent ==
  /\ hashV2 # <<>> /\ hashV3 # <<>>
  /\ ~EventTypeIsUnique(hashArgs.type)
  /\ hashArgs.A = hashArgs.B /\ hashArgs.A # <<>>
  /\ hashArgs.contentA # hashArgs.contentB


(***************************************************************************)
(* The registration methods of EDXMLDefinitions, called one after another  *)
(* on a registry that starts empty.  An attribute dictionary is a function *)
(* from attribute names to values; property names and property maps are    *)
(* character strings.  A run ends with the first call that raises.         *)
(***************************************************************************)
Mandatory         == [mandatory |-> TRUE,  default |-> <<>>]
Optional(Default) == [mandatory |-> FALSE, default |-> <<Default>>]
OptionalNoDefault == [mandatory |-> FALSE, default |-> <<>>]

\* self.EDXMLEntityAttributes, lines 126-169: 'mandatory' and 'default' of each
\* attribute.  The table has no entry 'parent'.
EDXMLEntityAttributes ==
  ( "eventtype" :>
      ( "name" :> Mandatory @@ "display-name" :> Optional("/")
     @@ "description" :> Mandatory @@ "classlist" :> Mandatory
     @@ "reporter-short" :> Mandatory @@ "reporter-long" :> Mandatory )
 @@ "property" :>
      ( "name" :> Mandatory @@ "description" :> Mandatory
     @@ "similar" :> OptionalNoDefault @@ "object-type" :> Mandatory
     @@ "unique" :> Optional("false") @@ "merge" :> Optional("drop")
     @@ "defines-entity" :> Optional("false") @@ "entity-confidence" :> Optional("0") )
 @@ "relation" :>
      ( "property1" :> Mandatory @@ "property2" :> Mandatory
     @@ "directed" :> Optional("true") @@ "description" :> Mandatory
     @@ "type" :> Mandatory @@ "confidence" :> Mandatory )
 @@ "objecttype" :>
      ( "name" :> Mandatory @@ "display-name" :> Optional("/")
     @@ "description" :> Mandatory @@ "fuzzy-matching" :> Optional("none")
     @@ "compress" :> Optional("false") @@ "enp" :> Optional("0")
     @@ "regexp" :> Optional("[\\s\\S]*") @@ "data-type" :> Mandatory )
 @@ "source" :>
      ( "source-id" :> Mandatory @@ "url" :> Mandatory
     @@ "date-acquired" :> Mandatory @@ "description" :> Mandatory ) )

\* How a call ends: the exception it raises, None when it returns, and the
\* attribute the exception is about.
Returned == [raised |-> None, attribute |-> None]
Raised(Exception, Attribute) == [raised |-> Exception, attribute |-> Attribute]

\* Lines 799-806 and 808-816, for one attribute that was added (Value is its new
\* value) or removed (Value is its stored value).  The lookup in the table
\* raises KeyError for an entity or an attribute the table does not have.
UnsharedAttribute(Entity, Attrib, Value) ==
  IF Entity \notin DOMAIN EDXMLEntityAttributes THEN Raised("KeyError", Entity)
  ELSE IF Attrib \notin DOMAIN EDXMLEntityAttributes[Entity] THEN Raised("KeyError", Attrib)
  ELSE IF EDXMLEntityAttributes[Entity][Attrib].mandatory THEN Raised("EDXMLError", Attrib)
  ELSE IF EDXMLEntityAttributes[Entity][Attrib].default = <<>>
  THEN Raised("EDXMLError", Attrib)
  ELSE IF Value # EDXMLEntityAttributes[Entity][Attrib].default[1]
  THEN Raised("EDXMLError", Attrib)
  ELSE Returned

\* CheckEdxmlEntityConsistency, lines 777-818: the ways the call can end.  Each
\* loop runs over a set, in an order Python does not fix, and the first
\* attribute that fails raises.
CheckEdxmlEntityConsistency(Entity, CurrentAttributes, UpdatedAttributes) ==
  LET Current      == DOMAIN CurrentAttributes
      Update       == DOMAIN UpdatedAttributes
      RetainedFail == { Raised("EDXMLError", a) :
                          a \in { b \in Update \cap Current :
                                    CurrentAttributes[b] # UpdatedAttributes[b] } }
      AddedFail    == { UnsharedAttribute(Entity, a, UpdatedAttributes[a]) :
                          a \in Update \ Current } \ {Returned}
      RemovedFail  == { UnsharedAttribute(Entity, a, CurrentAttributes[a]) :
                          a \in Current \ Update } \ {Returned}
  IN  IF RetainedFail # {} THEN RetainedFail
      ELSE IF AddedFail # {} THEN AddedFail
      ELSE IF RemovedFail # {} THEN RemovedFail
      ELSE {Returned}

\* ValidateEdxmlEntityAttributes, lines 825-849, for attribute values that have
\* the length and the pattern the table asks for: a mandatory attribute that is
\* missing raises, then an attribute the table does not have.
ValidateEdxmlEntityAttributes(EntityName, Attributes) ==
  LET Missing == { a \in DOMAIN EDXMLEntityAttributes[EntityName] :
                     /\ a \notin DOMAIN Attributes
                     /\ EDXMLEntityAttributes[EntityName][a].mandatory }
      Unknown == DOMAIN Attributes \ DOMAIN EDXMLEntityAttributes[EntityName]
  IN  IF Missing # {} THEN { Raised("EDXMLError", a) : a \in Missing }
      ELSE IF Unknown # {} THEN { Raised("EDXMLError", a) : a \in Unknown }
      ELSE {Returned}

\* No call has raised so far.
Running == IF lastCall = <<>> THEN TRUE ELSE lastCall[1].raised = None

\* The record of a call: the method, the entity and its name, the attributes
\* passed, the attributes stored before the call (none for a first definition)
\* and how the call ended.  self.Error counts the error before it raises.
Ends(Method, Entity, Name, Attributes, Stored, o) ==
  /\ lastCall' = << [ method |-> Method, entity |-> Entity, name |-> Name,
                      Attributes |-> Attributes, stored |-> Stored,
                      raised |-> o.raised, attribute |-> o.attribute ] >>
  /\ ErrorCount' = IF o.raised = "EDXMLError" THEN ErrorCount + 1 ELSE ErrorCount

\* Lines 485-495: the entry of a new event type.
NewEventType(Attributes) ==
  [ attributes          |-> Attributes,
    properties          |-> <<>>,
    uniqueProperties    |-> {},
    mandatoryProperties |-> {},
    singletonProperties |-> {},
    parentmapping       |-> <<>>,
    relations           |-> <<>>,
    relatedProperties   |-> {},
    unique              |-> FALSE,
    parent              |-> <<>> ]

\* AddEventType, lines 355-372, with AddNewEventType, lines 476-500.
AddEventType(EventTypeName, Attributes) ==
  /\ Running
  /\ IF EventTypeName \in DOMAIN EventTypes
     THEN /\ \E o \in CheckEdxmlEntityConsistency("eventtype",
                        EventTypes[EventTypeName].attributes, Attributes) :
               Ends("AddEventType", "eventtype", EventTypeName, Attributes,
                    <<EventTypes[EventTypeName].attributes>>, o)
          /\ UNCHANGED <<EventTypes, EventTypeNames, PropertyNames>>
     ELSE /\ EventTypeNames' = Append(EventTypeNames, EventTypeName)
          /\ PropertyNames' = (EventTypeName :> <<>>) @@ PropertyNames
          /\ \E o \in ValidateEdxmlEntityAttributes("eventtype", Attributes) :
               /\ Ends("AddEventType", "eventtype", EventTypeName, Attributes, <<>>, o)
               /\ EventTypes' = IF o.raised = None
                                THEN (EventTypeName :> NewEventType(Attributes)) @@ EventTypes
                                ELSE EventTypes
  /\ UNCHANGED <<ObjectTypes, SourceURLs, SourceIDs, passVars, bufferVars, mergeVars,
                 hashVars, validateVars, now, phase, input>>


\* s.split(sep) for a character string s and a character sep.
RECURSIVE Split(_, _)
Split(s, sep) ==
  IF \A i \in DOMAIN s : s[i] # sep THEN <<s>>
  ELSE LET i == CHOOSE j \in DOMAIN s :
                  s[j] = sep /\ \A k \in 1..(j - 1) : s[k] # sep
       IN  <<SubSeq(s, 1, i - 1)>> \o Split(SubSeq(s, i + 1, Len(s)), sep)

\* Lines 508-510: the loop over the property mappings.  A mapping that does not
\* split in two at ':' raises ValueError where the loop stands.
RECURSIVE MapProperties(_, _)
MapProperties(Mappings, parentmapping) ==
  IF Mappings = <<>> THEN [parentmapping |-> parentmapping, raised |-> None]
  ELSE IF Len(Split(Head(Mappings), ":")) # 2
  THEN [parentmapping |-> parentmapping, raised |-> "ValueError"]
  ELSE MapProperties(Tail(Mappings),
         (Split(Head(Mappings), ":")[1] :> Split(Head(Mappings), ":")[2])
           @@ parentmapping)

\* SetNewEventTypeParent, lines 503-514: the parent map after the call and how
\* the call ends.  The clause 'except KeyError, ValueError' is Python 2 for
\* 'except KeyError as ValueError': a missing 'propertymap' is reported with
\* self.Error, a ValueError of the loop is not caught.
SetNewEventTypeParent(parentmapping, Attributes) ==
  IF "propertymap" \notin DOMAIN Attributes
  THEN [parentmapping |-> parentmapping, raised |-> "EDXMLError"]
  ELSE MapProperties(Split(Attributes["propertymap"], ","), parentmapping)

\* SetEventTypeParent, lines 374-389, for attributes that hold 'eventtype'
\* (line 386 reads it).  An event type that is not registered raises KeyError
\* at line 384.
SetEventTypeParent(EventTypeName, Attributes) ==
  /\ Running
  /\ IF EventTypeName \notin DOMAIN EventTypes
     THEN /\ Ends("SetEventTypeParent", "parent", EventTypeName, Attributes, <<>>,
                  Raised("KeyError", EventTypeName))
          /\ UNCHANGED EventTypes
     ELSE IF EventTypes[EventTypeName].parent # <<>>
     THEN /\ \E o \in CheckEdxmlEntityConsistency("parent",
                        EventTypes[EventTypeName].parent[1], Attributes) :
               Ends("SetEventTypeParent", "parent", EventTypeName, Attributes,
                    EventTypes[EventTypeName].parent, o)
          /\ UNCHANGED EventTypes
     ELSE LET r == SetNewEventTypeParent(EventTypes[EventTypeName].parentmapping,
                                         Attributes)
          IN  /\ Ends("SetEventTypeParent", "parent", EventTypeName, Attributes, <<>>,
                      Raised(r.raised, IF r.raised = None THEN None ELSE "propertymap"))
              /\ EventTypes' = [EventTypes EXCEPT
                                  ![EventTypeName].parent = <<Attributes>>,
                                  ![EventTypeName].parentmapping = r.parentmapping]
  /\ UNCHANGED <<EventTypeNames, PropertyNames, ObjectTypes, SourceURLs, SourceIDs, passVars, bufferVars,
                 mergeVars, hashVars, validateVars, now, phase, input>>

\* AddNewProperty, lines 524-544: the entry of the event type after a property
\* with valid attributes was added.
AddNewProperty(Entry, PropertyName, Attributes) ==
  LET IsUnique == "unique" \in DOMAIN Attributes /\ Attributes["unique"] = "true"
      HasMerge == "merge" \in DOMAIN Attributes
  IN  [ Entry EXCEPT
          !.unique = IsUnique \/ @,
          !.uniqueProperties = IF IsUnique THEN @ \cup {PropertyName} ELSE @,
          !.mandatoryProperties =
             IF HasMerge /\ Attributes["merge"] \in {"match", "min", "max"}
             THEN @ \cup {PropertyName} ELSE @,
          !.singletonProperties =
             IF HasMerge /\ ( \/ Attributes["merge"] \in {"match", "replace", "min", "max"}
                              \/ PropertyName \in DOMAIN Entry.parentmapping )
             THEN @ \cup {PropertyName} ELSE @,
          !.properties = (PropertyName :> PropertyAttributes(Attributes)) @@ @ ]

\* AddProperty, lines 391-409, with AddNewProperty, lines 517-544.  An event
\* type that is not registered raises KeyError at line 404.
AddProperty(EventTypeName, PropertyName, Attributes) ==
  /\ Running
  /\ IF EventTypeName \notin DOMAIN EventTypes
     THEN /\ Ends("AddProperty", "property", PropertyName, Attributes, <<>>,
                  Raised("KeyError", EventTypeName))
          /\ UNCHANGED <<EventTypes, EventTypeNames, PropertyNames>>
     ELSE IF PropertyName \in DOMAIN EventTypes[EventTypeName].properties
     THEN /\ \E o \in CheckEdxmlEntityConsistency("property",
                        EventTypes[EventTypeName].properties[PropertyName], Attributes) :
               Ends("AddProperty", "property", PropertyName, Attributes,
                    <<EventTypes[EventTypeName].properties[PropertyName]>>, o)
          /\ UNCHANGED <<EventTypes, EventTypeNames, PropertyNames>>
     ELSE /\ PropertyNames' = [PropertyNames EXCEPT
                                 ![EventTypeName] = Append(@, PropertyName)]
          /\ \E o \in ValidateEdxmlEntityAttributes("property", Attributes) :
               /\ Ends("AddProperty", "property", PropertyName, Attributes, <<>>, o)
               /\ EventTypes' =
                    IF o.raised = None
                    THEN [EventTypes EXCEPT ![EventTypeName] =
                            AddNewProperty(@, PropertyName, Attributes)]
                    ELSE EventTypes
  /\ UNCHANGED <<EventTypeNames, ObjectTypes, SourceURLs, SourceIDs, passVars, bufferVars,
                 mergeVars, hashVars, validateVars, now, phase, input>>

\* AddRelation, lines 411-428, with AddNewRelation, lines 563-574.  An event
\* type that is not registered raises KeyError at line 425.
AddRelation(EventTypeName, Property1Name, Property2Name, Attributes) ==
  LET RelationId == Property1Name \o <<" ", "-", ">", " ">> \o Property2Name
  IN  /\ Running
      /\ IF EventTypeName \notin DOMAIN EventTypes
         THEN /\ Ends("AddRelation", "relation", RelationId, Attributes, <<>>,
                      Raised("KeyError", EventTypeName))
              /\ UNCHANGED EventTypes
         ELSE IF RelationId \in DOMAIN EventTypes[EventTypeName].relations
         THEN /\ \E o \in CheckEdxmlEntityConsistency("relation",
                            EventTypes[EventTypeName].relations[RelationId], Attributes) :
                   Ends("AddRelation", "relation", RelationId, Attributes,
                        <<EventTypes[EventTypeName].relations[RelationId]>>, o)
              /\ UNCHANGED EventTypes
         ELSE \E o \in ValidateEdxmlEntityAttributes("relation", Attributes) :
                /\ Ends("AddRelation", "relation", RelationId, Attributes, <<>>, o)
                /\ EventTypes' =
                     [EventTypes EXCEPT
                        ![EventTypeName].relatedProperties =
                           @ \cup {Property1Name, Property2Name},
                        ![EventTypeName].relations =
                           IF o.raised = None THEN (RelationId :> Attributes) @@ @ ELSE @]
      /\ UNCHANGED <<EventTypeNames, PropertyNames, ObjectTypes, SourceURLs, SourceIDs, passVars,
                     bufferVars, mergeVars, hashVars, validateVars, now, phase, input>>

\* AddObjectType, lines 432-453, with AddNewObjectType, lines 547-561, for a
\* data type that ValidateDataType accepts and no regular expression.  The
\* warning of line 447 changes no state.
AddObjectType(ObjectTypeName, Attributes) ==
  /\ Running
  /\ IF ObjectTypeName \in DOMAIN ObjectTypes
     THEN /\ \E o \in CheckEdxmlEntityConsistency("objecttype",
                        ObjectTypes[ObjectTypeName], Attributes) :
               Ends("AddObjectType", "objecttype", ObjectTypeName, Attributes,
                    <<ObjectTypes[ObjectTypeName]>>, o)
          /\ UNCHANGED ObjectTypes
     ELSE \E o \in ValidateEdxmlEntityAttributes("objecttype", Attributes) :
            /\ Ends("AddObjectType", "objecttype", ObjectTypeName, Attributes, <<>>, o)
            /\ ObjectTypes' = IF o.raised = None
                              THEN (ObjectTypeName :> Attributes) @@ ObjectTypes
                              ELSE ObjectTypes
  /\ UNCHANGED <<EventTypes, EventTypeNames, PropertyNames, SourceURLs, SourceIDs, passVars, bufferVars,
                 mergeVars, hashVars, validateVars, now, phase, input>>

\* AddSource, lines 455-473, with AddNewSource, lines 577-579.  The source id
\* is entered in self.SourceIDs before anything is checked.
AddSource(SourceUrl, Attributes) ==
  /\ Running
  /\ SourceIDs' = (Attributes["source-id"] :> SourceUrl) @@ SourceIDs
  /\ IF SourceUrl \in DOMAIN SourceURLs
     THEN /\ \E o \in CheckEdxmlEntityConsistency("source", SourceURLs[SourceUrl],
                                                   Attributes) :
               Ends("AddSource", "source", SourceUrl, Attributes,
                    <<SourceURLs[SourceUrl]>>, o)
          /\ UNCHANGED SourceURLs
     ELSE \E o \in ValidateEdxmlEntityAttributes("source", Attributes) :
            /\ Ends("AddSource", "source", SourceUrl, Attributes, <<>>, o)
            /\ SourceURLs' = IF o.raised = None
                             THEN (SourceUrl :> Attributes) @@ SourceURLs
                             ELSE SourceURLs
  /\ UNCHANGED <<EventTypes, EventTypeNames, PropertyNames, ObjectTypes, passVars, bufferVars,
                 mergeVars, hashVars, validateVars, now, phase, input>>


(***************************************************************************)
(* Registration and re-registration of one entity of each kind: the event  *)
(* type "e", its property "c", its relation of "c" with itself, its        *)
(* parent, the object type "o" and the source "/a/".                       *)
(***************************************************************************)
With(Attributes, Name, Value) == (Name :> Value) @@ Attributes

Without(Attributes, Name) == [a \in DOMAIN Attributes \ {Name} |-> Attributes[a]]

EventTypeE ==
  ( "name" :> "e" @@ "description" :> "d1" @@ "classlist" :> "k"
 @@ "reporter-short" :> "rs" @@ "reporter-long" :> "rl" )

EventTypeDefs ==
  { EventTypeE,
    With(EventTypeE, "description", "d2"),
    With(EventTypeE, "display-name", "/"),
    With(EventTypeE, "display-name", "n"),
    Without(EventTypeE, "reporter-long") }

PropertyC == ( "name" :> "c" @@ "description" :> "d1" @@ "object-type" :> "o" )

PropertyDefs ==
  { PropertyC,
    With(PropertyC, "merge", "drop"),
    With(PropertyC, "merge", "match"),
    With(PropertyC, "unique", "false"),
    With(PropertyC, "similar", "s") }

ParentP ==
  ( "eventtype" :> "p" @@ "propertymap" :> <<"c", ":", "u">>
 @@ "parent-description" :> "pd" @@ "siblings-description" :> "sd" )

ParentDefs ==
  { ParentP,
    With(ParentP, "parent-description", "pe"),
    Without(ParentP, "siblings-description") }

RelationCC ==
  ( "property1" :> "c" @@ "property2" :> "c" @@ "description" :> "d1"
 @@ "type" :> "intra:is" @@ "confidence" :> "1" )

RelationDefs ==
  { RelationCC,
    With(RelationCC, "directed", "true"),
    With(RelationCC, "directed", "false") }

ObjectTypeO == ( "name" :> "o" @@ "description" :> "d1" @@ "data-type" :> IntType )

ObjectTypeDefs ==
  { ObjectTypeO,
    With(ObjectTypeO, "compress", "false"),
    With(ObjectTypeO, "data-type", StrType) }

SourceA ==
  ( "source-id" :> "1" @@ "url" :> "/a/" @@ "date-acquired" :> "20100101"
 @@ "description" :> "d1" )

SourceDefs ==
  { SourceA,
    With(SourceA, "description", "d2"),
    With(SourceA, "source-id", "2") }

InitRegistryEmpty ==
  /\ EventTypes = <<>>
  /\ EventTypeNames = <<>>
  /\ PropertyNames = <<>>
  /\ ObjectTypes = <<>>
  /\ ErrorCount = 0

InitDefinitions ==
  /\ InitRegistryEmpty /\ InitCallsIdle
  /\ InitPassIdle /\ InitBufferIdle /\ InitMergeIdle /\ InitHashIdle /\ InitValidateIdle
  /\ now = 0 /\ phase = "definitions" /\ input = <<>>

NextDefinitions ==
  \/ \E Attributes \in EventTypeDefs : AddEventType("e", Attributes)
  \/ \E Attributes \in PropertyDefs : AddProperty("e", <<"c">>, Attributes)
  \/ \E Attributes \in ParentDefs : SetEventTypeParent("e", Attributes)
  \/ \E Attributes \in RelationDefs : AddRelation("e", <<"c">>, <<"c">>, Attributes)
  \/ \E Attributes \in ObjectTypeDefs : AddObjectType("o", Attributes)
  \/ \E Attributes \in SourceDefs : AddSource("/a/", Attributes)

SpecDefinitions == InitDefinitions /\ [][NextDefinitions]_vars

\* The default the table documents for an optional attribute, if any.
DocumentedDefault(Entity, Attrib) ==
  IF /\ Entity \in DOMAIN EDXMLEntityAttributes
     /\ Attrib \in DOMAIN EDXMLEntityAttributes[Entity]
     /\ ~EDXMLEntityAttributes[Entity][Attrib].mandatory
  THEN EDXMLEntityAttributes[Entity][Attrib].default
  ELSE <<>>

\* The attributes that stand in the way of a re-registration: those of both
\* definitions with different values, and those of one definition only that
\* are not optional with the documented default as value.
Offending(Entity, Old, New) ==
  { a \in DOMAIN Old \cap DOMAIN New : Old[a] # New[a] }
  \cup { a \in DOMAIN New \ DOMAIN Old : DocumentedDefault(Entity, a) # <<New[a]>> }
  \cup { a \in DOMAIN Old \ DOMAIN New : DocumentedDefault(Entity, a) # <<Old[a]>> }

\* The last call was made on an entity that was registered.
ReRegistered == lastCall # <<>> /\ lastCall[1].stored # <<>>

\* C18: a re-registration returns if and only if no attribute stands in its
\* way, and otherwise raises EDXMLError for one of the attributes that do.
C18_ReRegistration ==
  ReRegistered =>
    IF Offending(lastCall[1].entity, lastCall[1].stored[1], lastCall[1].Attributes) = {}
    THEN lastCall[1].raised = None
    ELSE /\ lastCall[1].raised = "EDXMLError"
         /\ lastCall[1].attribute \in
              Offending(lastCall[1].entity, lastCall[1].stored[1], lastCall[1].Attributes)

\* The same for the entities the table describes, and for a parent defined
\* again with the attributes it was defined with.
C18_TableEntities ==
  ( /\ ReRegistered
    /\ \/ lastCall[1].entity \in DOMAIN EDXMLEntityAttributes
       \/ DOMAIN lastCall[1].stored[1] = DOMAIN lastCall[1].Attributes )
  => IF Offending(lastCall[1].entity, lastCall[1].stored[1], lastCall[1].Attributes) = {}
     THEN lastCall[1].raised = None
     ELSE /\ lastCall[1].raised = "EDXMLError"
          /\ lastCall[1].attribute \in
               Offending(lastCall[1].entity, lastCall[1].stored[1], lastCall[1].Attributes)

\* A re-registration returned although the two definitions differ.
C18_WitnessAccepted ==
  /\ ReRegistered
  /\ lastCall[1].raised = None
  /\ lastCall[1].entity = "property"
  /\ "merge" \in DOMAIN lastCall[1].Attributes
  /\ "merge" \notin DOMAIN lastCall[1].stored[1]

\* The event type was defined again with another description.
C18_WitnessRefused ==
  /\ ReRegistered
  /\ lastCall[1].entity = "eventtype"
  /\ lastCall[1].raised = "EDXMLError"
  /\ lastCall[1].attribute = "description"


(***************************************************************************)
(* A child event type "e" with the property "c", a parent event type "p"   *)
(* with the properties "u" and "v", the parent definition of "e", and      *)
(* CheckEventTypeParents called on "e".                                    *)
(***************************************************************************)
\* CheckEventTypeParents, lines 630-661, for a registered event type: the ways
\* the call can end.  The loops run over a set and over the items of a dict,
\* in an order Python does not fix.  Line 652 reads the 'merge' attribute of
\* the child property before line 654 tests that the property exists.
CheckEventTypeParentsOutcomes(EventTypeName) ==
  LET Entry == EventTypes[EventTypeName]
  IN  IF Entry.parent = <<>> THEN {Returned}
      ELSE IF Entry.parent[1]["eventtype"] \notin DOMAIN EventTypes
      THEN {Raised("EDXMLError", "eventtype")}
      ELSE
        LET Parent   == EventTypes[Entry.parent[1]["eventtype"]]
            Unmapped == { UniqueParentProperty \in Parent.uniqueProperties :
                            UniqueParentProperty \notin Range(Entry.parentmapping) }
            Mapping(ChildProperty) ==
              IF ChildProperty \notin DOMAIN Entry.properties
              THEN Raised("KeyError", ChildProperty)
              ELSE IF "merge" \notin DOMAIN Entry.properties[ChildProperty]
              THEN Raised("KeyError", "merge")
              ELSE IF Entry.properties[ChildProperty]["merge"] \notin {"match", "drop"}
              THEN Raised("EDXMLError", ChildProperty)
              ELSE IF Entry.parentmapping[ChildProperty] \notin Parent.uniqueProperties
              THEN Raised("EDXMLError", Entry.parentmapping[ChildProperty])
              ELSE Returned
            Fails    == { Mapping(ChildProperty) :
                            ChildProperty \in DOMAIN Entry.parentmapping } \ {Returned}
        IN  IF Unmapped # {}
            THEN { Raised("EDXMLError", UniqueParentProperty) :
                     UniqueParentProperty \in Unmapped }
            ELSE IF Fails # {} THEN Fails
            ELSE {Returned}

\* An event type that is not registered raises KeyError at line 640.
CheckEventTypeParents(EventTypeName) ==
  /\ Running
  /\ IF EventTypeName \notin DOMAIN EventTypes
     THEN Ends("CheckEventTypeParents", "parent", EventTypeName, <<>>, <<>>,
               Raised("KeyError", EventTypeName))
     ELSE \E o \in CheckEventTypeParentsOutcomes(EventTypeName) :
            Ends("CheckEventTypeParents", "parent", EventTypeName, <<>>, <<>>, o)
  /\ UNCHANGED <<registryVars, SourceURLs, SourceIDs, passVars, bufferVars, mergeVars,
                 hashVars, validateVars, now, phase, input>>

ChildPropertyDefs ==
  { PropertyC,
    With(PropertyC, "merge", "drop"),
    With(PropertyC, "merge", "match"),
    With(PropertyC, "merge", "add") }

\* The properties of the parent event type: "u" is unique, "v" is not.
ParentPropertyDefs ==
  { [ name |-> <<"u">>,
      Attributes |-> ( "name" :> "u" @@ "description" :> "d1" @@ "object-type" :> "o"
                    @@ "unique" :> "true" @@ "merge" :> "match" ) ],
    [ name |-> <<"v">>,
      Attributes |-> ( "name" :> "v" @@ "description" :> "d1" @@ "object-type" :> "o"
                    @@ "merge" :> "drop" ) ] }

\* Parent definitions: "c" mapped to the unique property, "c" mapped to the
\* property that is not unique, a child property that "e" does not have, a
\* parent event type that is never registered, and a map without ':'.
ParentMapDefs ==
  { ParentP,
    With(ParentP, "propertymap", <<"c", ":", "v">>),
    With(ParentP, "propertymap", <<"x", ":", "u">>),
    With(ParentP, "eventtype", "q"),
    With(ParentP, "propertymap", <<"c">>) }

InitParents ==
  /\ InitRegistryEmpty /\ InitCallsIdle
  /\ InitPassIdle /\ InitBufferIdle /\ InitMergeIdle /\ InitHashIdle /\ InitValidateIdle
  /\ now = 0 /\ phase = "definitions" /\ input = <<>>

NextParents ==
  \/ \E Name \in {"e", "p"} : AddEventType(Name, With(EventTypeE, "name", Name))
  \/ \E Attributes \in ChildPropertyDefs : AddProperty("e", <<"c">>, Attributes)
  \/ \E Property \in ParentPropertyDefs :
       AddProperty("p", Property.name, Property.Attributes)
  \/ \E Attributes \in ParentMapDefs : SetEventTypeParent("e", Attributes)
  \/ CheckEventTypeParents("e")

SpecParents == InitParents /\ [][NextParents]_vars

\* C19: as long as no call has raised, every registered property that is a
\* child property of the parent map of its event type is one of the
\* singleton properties of that event type.
C19_MappedIsSingleton ==
  Running =>
    \A EventTypeName \in DOMAIN EventTypes :
      \A PropertyName \in DOMAIN EventTypes[EventTypeName].properties :
        PropertyName \in DOMAIN EventTypes[EventTypeName].parentmapping
          => PropertyName \in EventTypes[EventTypeName].singletonProperties

\* The same for a property that was registered with a merge attribute after
\* the parent of its event type.
C19_MergeAfterParent ==
  ( /\ lastCall # <<>>
    /\ lastCall[1].method = "AddProperty"
    /\ lastCall[1].raised = None
    /\ lastCall[1].stored = <<>>
    /\ "merge" \in DOMAIN lastCall[1].Attributes )
  => \A EventTypeName \in DOMAIN EventTypes :
       \A PropertyName \in DOMAIN EventTypes[EventTypeName].properties :
         ( /\ lastCall[1].name = PropertyName
           /\ lastCall[1].Attributes = Without(Without(
                 EventTypes[EventTypeName].properties[PropertyName],
                 "unique"), "defines-entity")
           /\ PropertyName \in DOMAIN EventTypes[EventTypeName].parentmapping )
         => PropertyName \in EventTypes[EventTypeName].singletonProperties

\* The merge strategy of a registered property: the 'merge' attribute, and the
\* default of the attribute table when the property has none.
MergeStrategyOf(EventTypeName, PropertyName) ==
  IF "merge" \in DOMAIN EventTypes[EventTypeName].properties[PropertyName]
  THEN EventTypes[EventTypeName].properties[PropertyName]["merge"]
  ELSE EDXMLEntityAttributes["property"]["merge"].default[1]

\* What is wrong with the parent definition of a registered event type that
\* has one: the five faults CheckEventTypeParents is to report.
ParentFaults(EventTypeName) ==
  LET Entry  == EventTypes[EventTypeName]
      Parent == Entry.parent[1]["eventtype"]
  IN  (IF Parent \notin DOMAIN EventTypes THEN {"parent undefined"} ELSE {})
      \cup (IF /\ Parent \in DOMAIN EventTypes
               /\ \E u \in EventTypes[Parent].uniqueProperties :
                    u \notin Range(Entry.parentmapping)
            THEN {"unique parent property not mapped"} ELSE {})
      \cup (IF \E c \in DOMAIN Entry.parentmapping : c \notin DOMAIN Entry.properties
            THEN {"child property unknown"} ELSE {})
      \cup (IF \E c \in DOMAIN Entry.parentmapping \cap DOMAIN Entry.properties :
                 MergeStrategyOf(EventTypeName, c) \notin {"match", "drop"}
            THEN {"child merge strategy"} ELSE {})
      \cup (IF /\ Parent \in DOMAIN EventTypes
               /\ \E c \in DOMAIN Entry.parentmapping :
                    Entry.parentmapping[c] \notin EventTypes[Parent].uniqueProperties
            THEN {"parent property not unique"} ELSE {})

\* CheckEventTypeParents was the last call, on an event type with a parent.
ParentsChecked ==
  /\ lastCall # <<>>
  /\ lastCall[1].method = "CheckEventTypeParents"
  /\ lastCall[1].name \in DOMAIN EventTypes
  /\ EventTypes[lastCall[1].name].parent # <<>>

\* C20: CheckEventTypeParents on an event type with a parent definition raises
\* EDXMLError when the definition has one of the five faults and returns when
\* it has none; a child property without merge attribute is no fault.
C20_ParentFaultsReported ==
  ParentsChecked =>
    IF ParentFaults(lastCall[1].name) # {}
    THEN lastCall[1].raised = "EDXMLError"
    ELSE lastCall[1].raised = None

\* The same when every child property of the parent map is a property of the
\* event type that was registered with a merge attribute.
C20_ExplicitMerge ==
  ( /\ ParentsChecked
    /\ \A c \in DOMAIN EventTypes[lastCall[1].name].parentmapping :
         /\ c \in DOMAIN EventTypes[lastCall[1].name].properties
         /\ "merge" \in DOMAIN EventTypes[lastCall[1].name].properties[c] )
  => IF ParentFaults(lastCall[1].name) # {}
     THEN lastCall[1].raised = "EDXMLError"
     ELSE lastCall[1].raised = None


(***************************************************************************)
(* Sources: AddSource called for two URLs with source ids that may         *)
(* collide, and UniqueSourceIDs.  Source ids are character strings.        *)
(***************************************************************************)
\* UniqueSourceIDs, lines 851-869.  The loop runs over the keys of
\* self.SourceURLs in the order of the dict, which Python does not fix; Order
\* is that order.  Entries of self.SourceIDs under other ids are left alone.
UniqueSourceIDs ==
  /\ Running
  /\ \E Order \in Orderings(DOMAIN SourceURLs) :
       LET Counter(SourceUrl) == CHOOSE i \in DOMAIN Order : Order[i] = SourceUrl
           Mapping == [SourceUrl \in DOMAIN SourceURLs |-> FormatNat(Counter(SourceUrl))]
       IN  /\ SourceURLs' = [SourceUrl \in DOMAIN SourceURLs |->
                               ("source-id" :> Mapping[SourceUrl]) @@ SourceURLs[SourceUrl]]
           /\ SourceIDs' = [SourceId \in DOMAIN SourceIDs \cup Range(Mapping) |->
                              IF SourceId \in Range(Mapping)
                              THEN CHOOSE SourceUrl \in DOMAIN SourceURLs :
                                     Mapping[SourceUrl] = SourceId
                              ELSE SourceIDs[SourceId]]
           /\ lastCall' = << [ method |-> "UniqueSourceIDs", entity |-> "source",
                               name |-> None, Attributes |-> <<>>, stored |-> <<>>,
                               raised |-> None, attribute |-> None,
                               returned |-> Mapping ] >>
  /\ UNCHANGED <<registryVars, ErrorCount, passVars, bufferVars, mergeVars, hashVars, validateVars,
                 now, phase, input>>

\* SourceIdDefined, lines 173-175.
SourceIdDefined(SourceId) == SourceId \in DOMAIN SourceIDs

SourceUrls == {"/a/", "/b/"}

\* Source definitions of a URL: two source ids that other URLs use as well, one
\* that is larger than the number of sources, and one other description.
SourceDefsOf(SourceUrl) ==
  { [ SourceA EXCEPT !["url"] = SourceUrl, !["source-id"] = SourceId,
                     !["description"] = Description ] :
      SourceId \in {<<"1">>, <<"2">>, <<"7">>}, Description \in {"d1"} }
  \cup { [ SourceA EXCEPT !["url"] = SourceUrl, !["source-id"] = <<"1">>,
                          !["description"] = "d2" ] }

InitSources ==
  /\ InitRegistryEmpty /\ InitCallsIdle
  /\ InitPassIdle /\ InitBufferIdle /\ InitMergeIdle /\ InitHashIdle /\ InitValidateIdle
  /\ now = 0 /\ phase = "definitions" /\ input = <<>>

NextSources ==
  \/ \E SourceUrl \in SourceUrls :
       \E Attributes \in SourceDefsOf(SourceUrl) : AddSource(SourceUrl, Attributes)
  \/ UniqueSourceIDs

SpecSources == InitSources /\ [][NextSources]_vars

\* UniqueSourceIDs was the last call.
Renumbered == IF lastCall = <<>> THEN FALSE ELSE lastCall[1].method = "UniqueSourceIDs"

\* The strings '1'..'n'.
FirstIds(n) == { FormatNat(i) : i \in 1..n }

\* C21: after UniqueSourceIDs on a registry with n sources the source ids of
\* the URLs are the strings '1'..'n', each once; the mapping returned sends
\* each URL to its id; SourceIDs is defined for these n ids and no other, and
\* sends the id of each URL back to the URL.
C21_UniqueSourceIDs ==
  Renumbered =>
    LET n == Cardinality(DOMAIN SourceURLs)
    IN  /\ { SourceURLs[u]["source-id"] : u \in DOMAIN SourceURLs } = FirstIds(n)
        /\ \A u, v \in DOMAIN SourceURLs :
             SourceURLs[u]["source-id"] = SourceURLs[v]["source-id"] => u = v
        /\ DOMAIN lastCall[1].returned = DOMAIN SourceURLs
        /\ \A u \in DOMAIN SourceURLs :
             lastCall[1].returned[u] = SourceURLs[u]["source-id"]
        /\ \A SourceId \in FirstIds(n) \cup {<<"1">>, <<"2">>, <<"7">>} :
             SourceIdDefined(SourceId) <=> SourceId \in FirstIds(n)
        /\ \A u \in DOMAIN SourceURLs : SourceIDs[SourceURLs[u]["source-id"]] = u

\* The same without the ids that SourceIDs held before the call.
C21_NewIds ==
  Renumbered =>
    LET n == Cardinality(DOMAIN SourceURLs)
    IN  /\ { SourceURLs[u]["source-id"] : u \in DOMAIN SourceURLs } = FirstIds(n)
        /\ \A u, v \in DOMAIN SourceURLs :
             SourceURLs[u]["source-id"] = SourceURLs[v]["source-id"] => u = v
        /\ DOMAIN lastCall[1].returned = DOMAIN SourceURLs
        /\ \A u \in DOMAIN SourceURLs :
             lastCall[1].returned[u] = SourceURLs[u]["source-id"]
        /\ \A SourceId \in FirstIds(n) : SourceIdDefined(SourceId)
        /\ \A u \in DOMAIN SourceURLs : SourceIDs[SourceURLs[u]["source-id"]] = u

\* C26: for every registered URL, SourceIDs sends the stored source id of the
\* URL to the URL, and every id of SourceIDs belongs to a registered URL whose
\* stored source id it is; after AddSource calls that returned and after one
\* that raised.
C26_SourceMapsConsistent ==
  (IF lastCall = <<>> THEN TRUE ELSE lastCall[1].method = "AddSource") =>
    /\ \A u \in DOMAIN SourceURLs :
         /\ SourceURLs[u]["source-id"] \in DOMAIN SourceIDs
         /\ SourceIDs[SourceURLs[u]["source-id"]] = u
    /\ \A SourceId \in DOMAIN SourceIDs :
         /\ SourceIDs[SourceId] \in DOMAIN SourceURLs
         /\ SourceURLs[SourceIDs[SourceId]]["source-id"] = SourceId


(***************************************************************************)
(* Buffered mode on a stream of events of one unique event type whose      *)
(* source ids include one that holds a colon.                              *)
(***************************************************************************)
\* The source ids '1', '2' and '1:x', as their colon-separated fields.
GroupSourceIds == {<<"1">>, <<"2">>, <<"1", "x">>}

GroupEvents ==
  { Event("eu", s, << <<"u", k>>, <<"a", <<"x">> >>, <<"m", <<"5">> >>, <<"x", <<"5">> >> >>,
          "c1", <<>>) :
      s \in GroupSourceIds, k \in {<<"p">>, <<"q">>} }

ParserReadsGroupEvent ==
  /\ phase = "eventgroups"
  /\ Len(input) < MaxStream
  /\ \E e \in GroupEvents : ProcessEvent(e)

NextGroups ==
  \/ ParserEndsDefinitions
  \/ ParserReadsGroupEvent
  \/ ParserEndsDocument
  \/ Tick

SpecGroups == InitBuffered /\ [][NextGroups]_vars

\* C22: with MaxLatency = 0 a step of the buffered merger calls FlushBuffer
\* only when it is EndOfStream or when it is a ProcessEvent that inserts an
\* event and brings the buffer count to MaxBufferSize; the time that has
\* gone by since the last flush never triggers one.
C22_NoLatencyFlush ==
  [][ (MaxLatency = 0 /\ flushes' # flushes) =>
        /\ flushes' = flushes + 1
        /\ \/ Len(input') = Len(input) /\ phase = "eventgroups"
           \/ /\ Len(input') = Len(input) + 1
              /\ insertedIds' # insertedIds
              /\ BufferSize + 1 >= MaxBufferSize ]_vars

\* An event was read and is held in the buffer with MaxLatency = 0 while the
\* clock is past the time of the last flush.
C22_Witness ==
  /\ MaxLatency = 0
  /\ BufferSize > 0
  /\ flushes > 0
  /\ now > LastOutputTime
  /\ phase = "eventgroups"

\* The AddEvent call at index i of Generator lies in an event group opened for
\* the event type and source id of the input event it writes, and closed
\* after it.
InItsGroup(i) ==
  LET Opens == { j \in 1..(i - 1) : Generator[j].call = "OpenEventGroup" }
      After == { j \in (i + 1)..Len(Generator) : Generator[j].call # "AddEvent" }
  IN  /\ Opens # {}
      /\ LET j == CHOOSE k \in Opens : \A l \in Opens : l <= k
         IN  /\ \A k \in (j + 1)..(i - 1) : Generator[k].call = "AddEvent"
             /\ Generator[j].EventTypeName = input[Generator[i].first].EventTypeName
             /\ Generator[j].SourceId = input[Generator[i].first].SourceId
      /\ After # {}
      /\ Generator[CHOOSE k \in After : \A l \in After : k <= l].call = "CloseEventGroup"

\* Every event that left the buffer, or stayed in it when the program ended,
\* was written in its group.
GroupsWritten ==
  /\ \A i \in 1..Len(Generator) : Generator[i].call = "AddEvent" => InItsGroup(i)
  /\ \A idx \in insertedIds :
       (phase \in {"done", "aborted"}
          \/ \A g \in DOMAIN Buffer : \A h \in DOMAIN Buffer[g] : Buffer[g][h].first # idx)
       => \E i \in 1..Len(Generator) :
            Generator[i].call = "AddEvent" /\ Generator[i].first = idx

\* C30: FlushBuffer opens the event group of every buffered group with the
\* event type name and the source id under which its events were inserted,
\* whatever the source id, and every AddEvent lies between an OpenEventGroup
\* and its CloseEventGroup.
C30_GroupsAsInserted == GroupsWritten

\* The same for streams whose source ids hold no colon.
C30_PlainSourceIds ==
  (\A i \in 1..Len(input) : Len(input[i].SourceId) = 1) => GroupsWritten


\* A sequence lists the members of S, each once.
ListsOnce(L, S) == Range(L) = S /\ Len(L) = Cardinality(S)

\* The name lists of the registry agree with its dictionaries.
NameListsAgree ==
  /\ ListsOnce(EventTypeNames, DOMAIN EventTypes)
  /\ \A e \in DOMAIN EventTypes :
       /\ e \in DOMAIN PropertyNames
       /\ ListsOnce(PropertyNames[e], DOMAIN EventTypes[e].properties)
       /\ \A p \in EventTypes[e].relatedProperties :
            \E q \in EventTypes[e].relatedProperties :
              \/ p \o <<" ", "-", ">", " ">> \o q \in DOMAIN EventTypes[e].relations
              \/ q \o <<" ", "-", ">", " ">> \o p \in DOMAIN EventTypes[e].relations

\* C25: in every state of the registry, after calls that returned and after
\* a registration that raised, EventTypeNames lists the keys of EventTypes,
\* each once, PropertyNames[e] lists the keys of EventTypes[e]['properties'],
\* and every related property belongs to a stored relation.
C25_NameLists == NameListsAgree

\* The same while no call has raised.
C25_WhileRunning == Running => NameListsAgree


(***************************************************************************)
(* EDXMLBase.ValidateDataType and ValidateObject, called on their own.     *)
(*                                                                         *)
(* A data type is the string of the 'data-type' attribute, as a sequence   *)
(* whose members are its colons, its digits and other single characters,   *)
(* and its words (number, int, signed, ...), each word one member.  A      *)
(* value is a Python int or float (num, in millionths for a float) or a    *)
(* string (str).                                                           *)
(***************************************************************************)
\* sep.join(L) for a list of strings.
RECURSIVE Join(_, _)
Join(L, sep) ==
  IF L = <<>> THEN <<>>
  ELSE IF Len(L) = 1 THEN L[1]
  ELSE L[1] \o <<sep>> \o Join(Tail(L), sep)

\* int(s) returns, for a string of the data types of the model.
IsInt(s) == Unsigned(s) # <<>> /\ \A i \in DOMAIN Unsigned(s) : Unsigned(s)[i] \in Range(Digits)

NumberKinds == { <<"tinyint">>, <<"smallint">>, <<"mediumint">>, <<"int">>, <<"bigint">>,
                 <<"float">>, <<"double">> }

\* ValidateDataType, lines 107-185: how the call ends.  Every path that does
\* not return, or raise before, reaches self.Error at line 185.
ValidateDataType(DataType) ==
  LET S == Split(DataType, ":")
      n == Len(S)
      Decimal ==
        IF n < 4 \/ ~IsInt(S[3]) THEN "EDXMLError"
        ELSE IF ~IsInt(S[4]) THEN "EDXMLError"
        ELSE IF ParseInt(S[4]) > ParseInt(S[3]) THEN "EDXMLError"        \* line 155
        ELSE IF n = 4 THEN "returned"
        ELSE IF n = 5 THEN (IF S[5] = <<"signed">> THEN "returned" ELSE "EDXMLError")
        ELSE "EDXMLError"
      Hex ==
        IF n <= 3 THEN "returned"
        ELSE IF ~IsInt(S[3]) THEN "EDXMLError"
        ELSE IF ~IsInt(S[4]) THEN "EDXMLError"
        ELSE IF ParseInt(S[4]) = 0 THEN "ZeroDivisionError"              \* line 171
        ELSE IF ParseInt(S[3]) % ParseInt(S[4]) # 0 THEN "EDXMLError"   \* line 171
        ELSE IF n = 4 THEN "IndexError"                                  \* line 173
        ELSE IF S[5] = <<>> /\ n = 6 THEN "returned"
        ELSE "EDXMLError"
      Number ==
        IF n < 2 THEN "EDXMLError"
        ELSE IF S[2] \in NumberKinds
        THEN (IF n = 3
              THEN (IF S[2] = <<"unsigned">> THEN "returned" ELSE "EDXMLError")  \* line 143
              ELSE "returned")
        ELSE IF S[2] = <<"decimal">> THEN Decimal
        ELSE IF S[2] = <<"hex">> THEN Hex
        ELSE "EDXMLError"
  IN  CASE S[1] = <<"enum">> -> IF n > 1 THEN "returned" ELSE "EDXMLError"
        [] S[1] \in {<<"timestamp">>, <<"ip">>, <<"hashlink">>, <<"boolean">>} ->
             IF n = 1 THEN "returned" ELSE "EDXMLError"
        [] S[1] = <<"geo">> ->
             IF n = 2 THEN (IF S[2] = <<"point">> THEN "returned" ELSE "EDXMLError")
             ELSE "EDXMLError"
        [] S[1] = <<"number">> -> Number
        \* re.match of string:[0-9]+:((cs)|(ci))(:[ru]+)? at the start of DataType
        [] S[1] = <<"string">> ->
             IF n < 3 THEN "EDXMLError"
             ELSE IF S[2] # <<>> /\ (\A i \in DOMAIN S[2] : S[2][i] \in Range(Digits))
                     /\ S[3] # <<>>
             THEN (IF S[3][1] \in {"cs", "ci"} THEN "returned" ELSE "EDXMLError")
             ELSE "EDXMLError"
        \* re.match of binstring:[0-9]+(:r)? at the start of DataType
        [] S[1] = <<"binstring">> ->
             IF n < 2 THEN "EDXMLError"
             ELSE IF S[2] # <<>>
             THEN (IF S[2][1] \in Range(Digits) THEN "returned" ELSE "EDXMLError")
             ELSE "EDXMLError"
        [] OTHER -> "EDXMLError"

\* Value < 0 in Python 2: a number is compared by value; a string is never
\* smaller than a number.
Negative(Value) == Value.type # "str" /\ Value.num < 0

\* float(Value) returns: always for a number, for a string if it is a decimal
\* numeral.
IsFloat(Value) ==
  \/ Value.type # "str"
  \/ LET u == Unsigned(Value.str)
     IN  /\ \E i \in DOMAIN u : u[i] \in Range(Digits)
         /\ \A i \in DOMAIN u : u[i] \in Range(Digits) \cup {"."}
         /\ Cardinality({i \in DOMAIN u : u[i] = "."}) <= 1

\* Value.decode("hex") returns: for a string of an even number of hex digits.
IsHex(Value) ==
  /\ Value.type = "str"
  /\ Len(Value.str) % 2 = 0
  /\ \A i \in DOMAIN Value.str :
       Value.str[i] \in Range(Digits) \cup {"a", "b", "c", "d", "e", "f"}

\* ValidateObject, lines 187-239: how the call ends for the data
\* types timestamp, number and geo.
ValidateObject(Value, DataType) ==
  LET S == Split(DataType, ":")
      n == Len(S)
      Stripped == [Value EXCEPT !.str = SelectSeq(@, LAMBDA c : c # ":")]
  IN  IF S[1] = <<"timestamp">>
      THEN (IF IsFloat(Value) THEN "returned" ELSE "EDXMLError")
      ELSE IF S[1] = <<"number">>
      THEN IF n < 2 THEN "IndexError"
           ELSE IF S[2] = <<"decimal">>
           THEN (IF n < 5 THEN (IF Negative(Value) THEN "EDXMLError" ELSE "returned")
                 ELSE "returned")
           ELSE IF S[2] = <<"hex">>
           THEN (IF n > 3
                 THEN (IF n < 6 THEN "IndexError"                        \* line 214
                       ELSE IF S[6] = <<>>
                       THEN (IF Value.type = "str"
                             THEN (IF IsHex(Stripped) THEN "returned" ELSE "EDXMLError")
                             ELSE "TypeError")                           \* line 217
                       ELSE IF IsHex(Value) THEN "returned" ELSE "EDXMLError")
                 ELSE IF IsHex(Value) THEN "returned" ELSE "EDXMLError")
           ELSE IF S[2] \in {<<"float">>, <<"double">>}
           THEN (IF ~IsFloat(Value) THEN "EDXMLError"
                 ELSE IF n < 3 THEN (IF Negative(Value) THEN "EDXMLError" ELSE "returned")
                 ELSE "returned")
           ELSE (IF n < 3 THEN (IF Negative(Value) THEN "EDXMLError" ELSE "returned")
                 ELSE "returned")
      ELSE "returned"

Word(w) == <<w>>

\* The data types tried.
NumberTypes ==
  { Join(<<Word("number"), k>> \o s, ":") :
      k \in NumberKinds, s \in {<<>>, <<Word("signed")>>, <<Word("unsigned")>>} }

DecimalTypes ==
  { Join(<<Word("number"), Word("decimal"), t, f>> \o s, ":") :
      t \in {<<"1">>, <<"2">>}, f \in {<<"1">>, <<"2">>, <<"x">>},
      s \in {<<>>, <<Word("signed")>>} }

HexTypes ==
  { Join(<<Word("number"), Word("hex"), <<"4">>, g>> \o s, ":") :
      g \in {<<"0">>, <<"2">>, <<"3">>},
      s \in {<<>>, << <<"-">> >>, << <<>>, <<>> >>} }
  \cup { Join(<<Word("number"), Word("hex")>>, ":"),
         Join(<<Word("number"), Word("hex"), <<"4">> >>, ":") }

OtherTypes ==
  { Word("timestamp"), Word("geo") \o <<":", "point">>, Word("number"), Word("ip"),
    Word("enum"), Word("enum") \o <<":", "a">>, Word("boolean"), Word("hashlink"),
    Word("string") \o <<":", "8", ":", "cs">>, Word("string") \o <<":", "8">>,
    Word("binstring") \o <<":", "8">>, Word("blob") }

DataTypeInputs == NumberTypes \cup DecimalTypes \cup HexTypes \cup OtherTypes

PyNum(Type, n) == [type |-> Type, num |-> n, str |-> <<>>]
PyStr(s) == [type |-> "str", num |-> 0, str |-> s]

\* The values tried: the numbers -5, 0, 5 and -0.5, and strings.
ValueInputs ==
  { PyNum("int", 0 - 5), PyNum("int", 0), PyNum("int", 5), PyNum("float", 0 - 500000),
    PyStr(<<"-", "5">>), PyStr(<<"5">>), PyStr(<<"-", "0", ".", "5">>),
    PyStr(<<"a", "b">>), PyStr(<<"x">>) }

CallValidateDataType ==
  /\ phase = "validate"
  /\ dataTypeResult = None
  /\ dataTypeResult' = ValidateDataType(valArgs.DataType)
  /\ ErrorCount' = IF dataTypeResult' = "EDXMLError" THEN ErrorCount + 1 ELSE ErrorCount
  /\ UNCHANGED <<registryVars, callVars, passVars, bufferVars, mergeVars, hashVars,
                 now, phase, input, valArgs, objectResult>>

\* ValidateObject is called for the data types timestamp, number and geo.
CallValidateObject ==
  /\ phase = "validate"
  /\ objectResult = None
  /\ Split(valArgs.DataType, ":")[1] \in {<<"timestamp">>, <<"number">>, <<"geo">>}
  /\ objectResult' = ValidateObject(valArgs.Value, valArgs.DataType)
  /\ ErrorCount' = IF objectResult' = "EDXMLError" THEN ErrorCount + 1 ELSE ErrorCount
  /\ UNCHANGED <<registryVars, callVars, passVars, bufferVars, mergeVars, hashVars,
                 now, phase, input, valArgs, dataTypeResult>>

InitValidate ==
  /\ InitRegistry /\ InitCallsIdle
  /\ InitPassIdle /\ InitBufferIdle /\ InitMergeIdle /\ InitHashIdle
  /\ now = 0 /\ phase = "validate" /\ input = <<>>
  /\ dataTypeResult = None /\ objectResult = None
  /\ \E DataType \in DataTypeInputs, Value \in ValueInputs :
       valArgs = [DataType |-> DataType, Value |-> Value]

NextValidate == CallValidateDataType \/ CallValidateObject

SpecValidate == InitValidate /\ [][NextValidate]_vars


\* The forms of data type that the type system recognizes.
Recognized(DataType) ==
  LET S == Split(DataType, ":")
      n == Len(S)
      IsNat(s) == s # <<>> /\ \A i \in DOMAIN s : s[i] \in Range(Digits)
  IN  \/ n = 1 /\ S[1] \in {<<"boolean">>, <<"timestamp">>, <<"ip">>, <<"hashlink">>}
      \/ n = 2 /\ S[1] = <<"geo">> /\ S[2] = <<"point">>
      \/ n >= 2 /\ S[1] = <<"enum">>
      \/ /\ n \in {2, 3} /\ S[1] = <<"number">> /\ S[2] \in NumberKinds
         /\ (n = 3 => S[3] = <<"signed">>)
      \/ /\ n \in {4, 5} /\ S[1] = <<"number">> /\ S[2] = <<"decimal">>
         /\ IsNat(S[3]) /\ IsNat(S[4])
         /\ (IF IsNat(S[3]) /\ IsNat(S[4]) THEN ParseNat(S[4]) < ParseNat(S[3]) ELSE FALSE)
         /\ (n = 5 => S[5] = <<"signed">>)
      \/ n = 3 /\ S[1] = <<"number">> /\ S[2] = <<"hex">> /\ IsNat(S[3])
      \/ /\ n \in {5, 6} /\ S[1] = <<"number">> /\ S[2] = <<"hex">>
         /\ IsNat(S[3]) /\ IsNat(S[4])
         /\ (IF IsNat(S[3]) /\ IsNat(S[4])
             THEN (IF ParseNat(S[4]) > 0 THEN ParseNat(S[3]) % ParseNat(S[4]) = 0 ELSE FALSE)
             ELSE FALSE)
         /\ (IF n = 5 THEN Len(S[5]) = 1 ELSE S[5] = <<>> /\ S[6] = <<>>)
      \/ /\ n \in {3, 4} /\ S[1] = <<"string">> /\ IsNat(S[2])
         /\ S[3] \in {<<"cs">>, <<"ci">>}
         /\ (n = 4 => S[4] = <<"u">>)
      \/ /\ n \in {2, 3} /\ S[1] = <<"binstring">> /\ IsNat(S[2])
         /\ (n = 3 => S[3] = <<"r">>)

\* C23: ValidateDataType returns exactly for the recognized forms of data
\* type: among them number:KIND and number:KIND:signed, and
\* number:hex:LEN:GROUP:SEP with LEN a multiple of GROUP for every separator;
\* number:decimal:TOTAL:FRACTION is refused unless FRACTION < TOTAL.
C23_AcceptsRecognized ==
  dataTypeResult # None =>
    (dataTypeResult = "returned" <=> Recognized(valArgs.DataType))

\* What holds of it: number:KIND is accepted, so is the hex type whose
\* separator is the colon and whose LEN is a multiple of GROUP; a decimal
\* type with FRACTION > TOTAL and a hex type whose LEN is no multiple of
\* GROUP are refused with EDXMLError.
C23_Unsuffixed ==
  dataTypeResult # None =>
    LET S == Split(valArgs.DataType, ":")
        n == Len(S)
    IN  /\ (n = 2 /\ S[1] = <<"number">> /\ S[2] \in NumberKinds)
             => dataTypeResult = "returned"
        /\ (valArgs.DataType = <<"number", ":", "hex", ":", "4", ":", "2", ":", ":">>)
             => dataTypeResult = "returned"
        /\ (n >= 4 /\ S[1] = <<"number">> /\ S[2] = <<"decimal">>
              /\ S[3] = <<"1">> /\ S[4] = <<"2">>)
             => dataTypeResult = "EDXMLError"
        /\ (n >= 4 /\ S[1] = <<"number">> /\ S[2] = <<"hex">>
              /\ S[3] = <<"4">> /\ S[4] = <<"3">>)
             => dataTypeResult = "EDXMLError"

\* A data type for unsigned numbers: an integer, float or double kind, or a
\* decimal, without :signed.
UnsignedNumeric(DataType) ==
  LET S == Split(DataType, ":")
  IN  IF Len(S) < 2 THEN FALSE
      ELSE /\ S[1] = <<"number">>
           /\ \/ Len(S) = 2 /\ S[2] \in NumberKinds
              \/ Len(S) = 4 /\ S[2] = <<"decimal">> /\ IsInt(S[3]) /\ IsInt(S[4])

\* The same data types with :signed.
SignedNumeric(DataType) ==
  LET S == Split(DataType, ":")
  IN  IF Len(S) < 3 THEN FALSE
      ELSE /\ S[1] = <<"number">>
           /\ S[Len(S)] = <<"signed">>
           /\ \/ Len(S) = 3 /\ S[2] \in NumberKinds
              \/ Len(S) = 5 /\ S[2] = <<"decimal">> /\ IsInt(S[3]) /\ IsInt(S[4])

\* A negative number, or the numeral of one.
IsNegativeValue(Value) ==
  IF Value.type = "str"
  THEN IsFloat(Value) /\ Head(Value.str) = "-"
  ELSE Value.num < 0

\* C24: ValidateObject raises an error for every negative value of an
\* unsigned integer, float, double or decimal type and accepts the same
\* value under the type with :signed.
C24_NegativeUnsigned ==
  (objectResult # None /\ IsNegativeValue(valArgs.Value)) =>
    /\ UnsignedNumeric(valArgs.DataType) => objectResult = "EDXMLError"
    /\ SignedNumeric(valArgs.DataType) => objectResult = "returned"

\* The same for values that are Python numbers.
C24_NegativeNumbers ==
  (objectResult # None /\ IsNegativeValue(valArgs.Value) /\ valArgs.Value.type # "str") =>
    /\ UnsignedNumeric(valArgs.DataType) => objectResult = "EDXMLError"
    /\ SignedNumeric(valArgs.DataType) => objectResult = "returned"


\* C27: merging leaves the sticky hash of a stored event as it was: the hash
\* under which an event is stored in HashBuffer is the sticky hash computed
\* from the stored event, before and after every merge into it.
C27_HashOfStored ==
  \A Hash \in DOMAIN HashBuffer :
    ComputeStickyHash(Hash.type,
                      ObjectList(HashBuffer[Hash].Objects, GetEventTypeProperties(Hash.type)),
                      Hash.content) = Hash

\* An event was merged into a stored event and changed it: the stored event
\* holds two values of the property merged by add.
C27_Witness ==
  \E Hash \in DOMAIN HashBuffer :
    /\ Hash.type = "eu"
    /\ HashBuffer[Hash].Objects["a"] = {<<"x">>, <<"y">>}


(***************************************************************************)
(* A registry filled by calls, then used: MergeEvents and ComputeStickyHash *)
(* on events of event type "e" with the unique property "u" and the         *)
(* property "c", both of object type "o".                                   *)
(***************************************************************************)
\* NormalizeObject, lines 301-345: the exception the call ends in, None when it
\* returns.  Decimal(), int() and float() raise their own exceptions; only the
\* ip branch reports through self.Error (lines 317, 322).
NormalizeObjectRaises(Value, DataType) ==
  IF DataType[1] = "timestamp"
  THEN (IF IsFloat(PyStr(Value)) THEN None ELSE "InvalidOperation")
  ELSE IF DataType[1] = "number"
  THEN (IF DataType[2] = "decimal"
        THEN (IF IsFloat(PyStr(Value)) THEN None ELSE "InvalidOperation")
        ELSE IF DataType[2] \in IntegerTypes
        THEN (IF IsInt(Value) THEN None ELSE "ValueError")
        ELSE IF IsFloat(PyStr(Value)) THEN None ELSE "ValueError")
  ELSE IF DataType[1] = "ip"
  THEN LET Octets == Split(Value, ".")
       IN  IF Len(Octets) < 4 THEN "EDXMLError"
           ELSE IF \A i \in 1..4 : IsInt(Octets[i]) THEN None ELSE "EDXMLError"
  ELSE None

\* The loop of ComputeStickyHash, lines 990-1010: the exception that the first
\* object that cannot be normalized ends the call in, None when there is none.
RECURSIVE ComputeStickyHashRaises(_, _)
ComputeStickyHashRaises(EventTypeName, EventObjects) ==
  IF EventObjects = <<>> THEN None
  ELSE LET Property == Head(EventObjects)[1]
           Value    == Head(EventObjects)[2]
           DataType == GetObjectTypeDataType(GetPropertyObjectType(EventTypeName, Property))
           Skipped  ==
             IF EventTypeIsUnique(EventTypeName)
                  /\ PropertyIsUnique(EventTypeName, Property) = FALSE
             THEN TRUE
             ELSE IF DataType[1] = "number" THEN DataType[2] \in {"float", "double"}
             ELSE FALSE
       IN  IF Skipped THEN ComputeStickyHashRaises(EventTypeName, Tail(EventObjects))
           ELSE IF NormalizeObjectRaises(Value, DataType) # None
           THEN NormalizeObjectRaises(Value, DataType)
           ELSE ComputeStickyHashRaises(EventTypeName, Tail(EventObjects))

\* The values of the events: an integer, an IP address and a word.
UseValues == { <<"5">>, <<"1", ".", "2", ".", "3", ".", "4">>, <<"x">> }

UseMaps == { (<<"u">> :> {k}) @@ (<<"c">> :> {v}) : k \in UseValues, v \in {<<"1">>, <<"2">>} }

UseObjects == { << <<<<"c">>, <<"1">> >>, <<<<"u">>, k>> >> : k \in UseValues }

\* Both properties of the events and their object type are registered.
UseReady ==
  /\ Running
  /\ "e" \in DOMAIN EventTypes
  /\ "o" \in DOMAIN ObjectTypes
  /\ IF "e" \in DOMAIN EventTypes
     THEN {<<"u">>, <<"c">>} \subseteq DOMAIN EventTypes["e"].properties
     ELSE FALSE

\* MergeEvents("e", A, B), lines 871-973.
UseMergeEvents ==
  /\ UseReady
  /\ resAB = <<>>
  /\ \E A \in UseMaps, B \in UseMaps :
       LET m == MergeEvents("e", A, B)
       IN  /\ argA' = A /\ argB' = B /\ mergeType' = "e"
           /\ resAB' = <<m>>
           /\ lastCall' = << [ method |-> "MergeEvents", entity |-> "event", name |-> "e",
                               Attributes |-> <<>>, stored |-> <<>>,
                               raised |-> IF m.raised = {} THEN None
                                          ELSE CHOOSE x \in m.raised : TRUE,
                               attribute |-> None ] >>
           /\ ErrorCount' = IF "EDXMLError" \in m.raised THEN ErrorCount + 1 ELSE ErrorCount
  /\ UNCHANGED <<registryVars, SourceURLs, SourceIDs, passVars, bufferVars, hashVars,
                 validateVars, resBA, chainVars, now, phase, input>>

\* ComputeStickyHash("e", EventObjects, ''), lines 975-1018.  When
\* NormalizeObject raises EDXMLError it has called self.Error, which counted
\* the error; the except clause of line 1007 calls self.Error again (line 1008).
UseComputeStickyHash ==
  /\ UseReady
  /\ \E EventObjects \in UseObjects :
       LET raised == ComputeStickyHashRaises("e", EventObjects)
       IN  /\ lastCall' = << [ method |-> "ComputeStickyHash", entity |-> "event",
                               name |-> "e", Attributes |-> <<>>, stored |-> <<>>,
                               raised |-> raised, attribute |-> None ] >>
           /\ ErrorCount' = IF raised = "EDXMLError" THEN ErrorCount + 2 ELSE ErrorCount
  /\ UNCHANGED <<registryVars, SourceURLs, SourceIDs, passVars, bufferVars, mergeVars,
                 hashVars, validateVars, now, phase, input>>

UseObjectTypeDefs ==
  { With(ObjectTypeO, "data-type", DataType) : DataType \in {IntType, <<"ip">>} }

UseUniqueProperty ==
  ( "name" :> "u" @@ "description" :> "d1" @@ "object-type" :> "o"
 @@ "unique" :> "true" @@ "merge" :> "match" )

InitUse ==
  /\ InitRegistryEmpty /\ InitCallsIdle
  /\ InitPassIdle /\ InitBufferIdle /\ InitMergeIdle /\ InitHashIdle /\ InitValidateIdle
  /\ now = 0 /\ phase = "definitions" /\ input = <<>>

NextUse ==
  \/ \E Attributes \in {EventTypeE, Without(EventTypeE, "reporter-long")} :
       AddEventType("e", Attributes)
  \/ \E Attributes \in UseObjectTypeDefs : AddObjectType("o", Attributes)
  \/ AddProperty("e", <<"u">>, UseUniqueProperty)
  \/ \E Attributes \in ChildPropertyDefs : AddProperty("e", <<"c">>, Attributes)
  \/ UseMergeEvents
  \/ UseComputeStickyHash

SpecUse == InitUse /\ [][NextUse]_vars

\* C28: every operation of the registry that fails with EDXMLError, a
\* ComputeStickyHash call that cannot normalize a value among them, raises
\* ErrorCount by exactly one.
C28_OneErrorPerFailure ==
  [][ (Running /\ ~Running' /\ lastCall'[1].raised = "EDXMLError")
        => ErrorCount' = ErrorCount + 1 ]_vars

\* The same for the registration methods and MergeEvents.
C28_ButComputeStickyHash ==
  [][ (Running /\ ~Running' /\ lastCall'[1].raised = "EDXMLError"
         /\ lastCall'[1].method # "ComputeStickyHash")
        => ErrorCount' = ErrorCount + 1 ]_vars

\* C29: MergeEvents treats a property that is not unique and was registered
\* without a merge attribute as merge 'drop': the call returns and leaves the
\* values of the property in A as they were.
C29_NoMergeIsDrop ==
  ( /\ resAB # <<>>
    /\ mergeType = "e"
    /\ "merge" \notin DOMAIN EventTypes["e"].properties[<<"c">>] )
  => /\ resAB[1].raised = {}
     /\ ValuesOf(resAB[1].A, <<"c">>) = ValuesOf(argA, <<"c">>)

\* The same for a property registered with merge 'drop'.
C29_ExplicitDrop ==
  ( /\ resAB # <<>>
    /\ mergeType = "e"
    /\ "merge" \in DOMAIN EventTypes["e"].properties[<<"c">>] )
  => ( EventTypes["e"].properties[<<"c">>]["merge"] = "drop"
       => /\ resAB[1].raised = {}
          /\ ValuesOf(resAB[1].A, <<"c">>) = ValuesOf(argA, <<"c">>) )

====
